---- MODULE Spec2Model ----
(***************************************************************************)
(* BeamNGpy: the simulator-side protocol layer.                            *)
(*   researchCommunication.lua  framing, newSet, checkForClients,          *)
(*                              checkMessages, sendMessage                 *)
(*   researchGE.lua             the game-engine extension: onPreRender,    *)
(*                              the completion hooks and the handlers      *)
(*   researchVE.lua             the per-vehicle extension                  *)
(* The Lua code is written here as operators over a state record S, one    *)
(* operator per Lua function; an action applies the operator of a callback *)
(* the engine invokes to the current state.                                *)
(***************************************************************************)
EXTENDS Integers, Sequences, FiniteSets, TLC

Nil == "nil"

(***************************************************************************)
(* Strings.  A Lua string is a byte sequence; the model names a string by  *)
(* a TLA+ string and CharCodes gives its bytes.                            *)
(***************************************************************************)
CharCodes ==
    ("type" :> <<116, 121, 112, 101>>) @@
    ("protocolVersion" :> <<112, 114, 111, 116, 111, 99, 111, 108, 86, 101, 114, 115, 105, 111, 110>>) @@
    ("path" :> <<112, 97, 116, 104>>) @@
    ("count" :> <<99, 111, 117, 110, 116>>) @@
    ("name" :> <<110, 97, 109, 101>>) @@
    ("vid" :> <<118, 105, 100>>) @@
    ("result" :> <<114, 101, 115, 117, 108, 116>>) @@
    ("bngValueError" :> <<98, 110, 103, 86, 97, 108, 117, 101, 69, 114, 114, 111, 114>>) @@
    ("bngError" :> <<98, 110, 103, 69, 114, 114, 111, 114>>) @@
    ("id" :> <<105, 100>>) @@
    ("level" :> <<108, 101, 118, 101, 108>>) @@
    ("info" :> <<105, 110, 102, 111>>) @@
    ("pos" :> <<112, 111, 115>>) @@
    ("rot" :> <<114, 111, 116>>) @@
    ("color" :> <<99, 111, 108, 111, 114>>) @@
    ("radius" :> <<114, 97, 100, 105, 117, 115>>) @@
    ("vehicle" :> <<118, 101, 104, 105, 99, 108, 101>>) @@
    ("sphereID" :> <<115, 112, 104, 101, 114, 101, 73, 68>>) @@
    ("Hello" :> <<72, 101, 108, 108, 111>>) @@
    ("LoadScenario" :> <<76, 111, 97, 100, 83, 99, 101, 110, 97, 114, 105, 111>>) @@
    ("StartScenario" :> <<83, 116, 97, 114, 116, 83, 99, 101, 110, 97, 114, 105, 111>>) @@
    ("RestartScenario" :> <<82, 101, 115, 116, 97, 114, 116, 83, 99, 101, 110, 97, 114, 105, 111>>) @@
    ("StopScenario" :> <<83, 116, 111, 112, 83, 99, 101, 110, 97, 114, 105, 111>>) @@
    ("Step" :> <<83, 116, 101, 112>>) @@
    ("HideHUD" :> <<72, 105, 100, 101, 72, 85, 68>>) @@
    ("WaitForSpawn" :> <<87, 97, 105, 116, 70, 111, 114, 83, 112, 97, 119, 110>>) @@
    ("GetLevels" :> <<71, 101, 116, 76, 101, 118, 101, 108, 115>>) @@
    ("Pause" :> <<80, 97, 117, 115, 101>>) @@
    ("StartVehicleConnection" :> <<83, 116, 97, 114, 116, 86, 101, 104, 105, 99, 108, 101, 67, 111, 110, 110, 101, 99, 116, 105, 111, 110>>) @@
    ("Bogus" :> <<66, 111, 103, 117, 115>>) @@
    ("GetObject" :> <<71, 101, 116, 79, 98, 106, 101, 99, 116>>) @@
    ("CreateScenario" :> <<67, 114, 101, 97, 116, 101, 83, 99, 101, 110, 97, 114, 105, 111>>) @@
    ("GetCurrentScenario" :> <<71, 101, 116, 67, 117, 114, 114, 101, 110, 116, 83, 99, 101, 110, 97, 114, 105, 111>>) @@
    ("StartUSSensorVisualization" :> <<83, 116, 97, 114, 116, 85, 83, 83, 101, 110, 115, 111, 114, 86, 105, 115, 117, 97, 108, 105, 122, 97, 116, 105, 111, 110>>) @@
    ("MapLoaded" :> <<77, 97, 112, 76, 111, 97, 100, 101, 100>>) @@
    ("ScenarioStarted" :> <<83, 99, 101, 110, 97, 114, 105, 111, 83, 116, 97, 114, 116, 101, 100>>) @@
    ("ScenarioRestarted" :> <<83, 99, 101, 110, 97, 114, 105, 111, 82, 101, 115, 116, 97, 114, 116, 101, 100>>) @@
    ("ScenarioStopped" :> <<83, 99, 101, 110, 97, 114, 105, 111, 83, 116, 111, 112, 112, 101, 100>>) @@
    ("Stepped" :> <<83, 116, 101, 112, 112, 101, 100>>) @@
    ("VehicleSpawned" :> <<86, 101, 104, 105, 99, 108, 101, 83, 112, 97, 119, 110, 101, 100>>) @@
    ("Paused" :> <<80, 97, 117, 115, 101, 100>>) @@
    ("v1.19" :> <<118, 49, 46, 49, 57>>) @@
    ("v1.18" :> <<118, 49, 46, 49, 56>>) @@
    ("/ok.json" :> <<47, 111, 107, 46, 106, 115, 111, 110>>) @@
    ("/no.json" :> <<47, 110, 111, 46, 106, 115, 111, 110>>) @@
    ("car1" :> <<99, 97, 114, 49>>) @@
    ("car2" :> <<99, 97, 114, 50>>) @@
    ("Scenario not found: \"/no.json\"" :> <<83, 99, 101, 110, 97, 114, 105, 111, 32, 110, 111, 116, 32, 102, 111, 117, 110, 100, 58, 32, 34, 47, 110, 111, 46, 106, 115, 111, 110, 34>>) @@
    ("car9" :> <<99, 97, 114, 57>>) @@
    ("west" :> <<119, 101, 115, 116>>) @@
    ("demo" :> <<100, 101, 109, 111>>) @@
    ("{}" :> <<123, 125>>) @@
    ("/levels/west/scenarios/demo.json" :> <<47, 108, 101, 118, 101, 108, 115, 47, 119, 101, 115, 116, 47, 115, 99, 101, 110, 97, 114, 105, 111, 115, 47, 100, 101, 109, 111, 46, 106, 115, 111, 110>>) @@
    ("No scenario loaded." :> <<78, 111, 32, 115, 99, 101, 110, 97, 114, 105, 111, 32, 108, 111, 97, 100, 101, 100, 46>>) @@
    ("Scenario needs a name." :> <<83, 99, 101, 110, 97, 114, 105, 111, 32, 110, 101, 101, 100, 115, 32, 97, 32, 110, 97, 109, 101, 46>>) @@
    ("Scenario needs an associated level." :> <<83, 99, 101, 110, 97, 114, 105, 111, 32, 110, 101, 101, 100, 115, 32, 97, 110, 32, 97, 115, 115, 111, 99, 105, 97, 116, 101, 100, 32, 108, 101, 118, 101, 108, 46>>) @@
    ("Scenario needs an info file definition." :> <<83, 99, 101, 110, 97, 114, 105, 111, 32, 110, 101, 101, 100, 115, 32, 97, 110, 32, 105, 110, 102, 111, 32, 102, 105, 108, 101, 32, 100, 101, 102, 105, 110, 105, 116, 105, 111, 110, 46>>) @@
    ("Unknown object ID: 9" :> <<85, 110, 107, 110, 111, 119, 110, 32, 111, 98, 106, 101, 99, 116, 32, 73, 68, 58, 32, 57>>) @@
    ("someName" :> <<115, 111, 109, 101, 78, 97, 109, 101>>) @@
    ("Foo" :> <<70, 111, 111>>) @@
    ("Bob" :> <<66, 111, 98>>) @@
    ("Goodbye!" :> <<71, 111, 111, 100, 98, 121, 101, 33>>) @@
    ("sensors" :> <<115, 101, 110, 115, 111, 114, 115>>) @@
    ("data" :> <<100, 97, 116, 97>>) @@
    ("shmem" :> <<115, 104, 109, 101, 109>>) @@
    ("instance" :> <<105, 110, 115, 116, 97, 110, 99, 101>>) @@
    ("image" :> <<105, 109, 97, 103, 101>>) @@
    ("cam1" :> <<99, 97, 109, 49>>) @@
    ("cam2" :> <<99, 97, 109, 50>>) @@
    ("lidar1" :> <<108, 105, 100, 97, 114, 49>>) @@
    ("lidar9" :> <<108, 105, 100, 97, 114, 57>>) @@
    ("other1" :> <<111, 116, 104, 101, 114, 49>>) @@
    ("SensorRequest" :> <<83, 101, 110, 115, 111, 114, 82, 101, 113, 117, 101, 115, 116>>) @@
    ("SensorData" :> <<83, 101, 110, 115, 111, 114, 68, 97, 116, 97>>) @@
    ("Camera" :> <<67, 97, 109, 101, 114, 97>>) @@
    ("Lidar" :> <<76, 105, 100, 97, 114>>) @@
    ("Radar" :> <<82, 97, 100, 97, 114>>) @@
    ("SetRelativeCam" :> <<83, 101, 116, 82, 101, 108, 97, 116, 105, 118, 101, 67, 97, 109>>) @@
    ("RelativeCamSet" :> <<82, 101, 108, 97, 116, 105, 118, 101, 67, 97, 109, 83, 101, 116>>) @@
    ("direction" :> <<100, 105, 114, 101, 99, 116, 105, 111, 110>>) @@
    ("fov" :> <<102, 111, 118>>) @@
    ("resolution" :> <<114, 101, 115, 111, 108, 117, 116, 105, 111, 110>>) @@
    ("near_far" :> <<110, 101, 97, 114, 95, 102, 97, 114>>) @@
    ("points" :> <<112, 111, 105, 110, 116, 115>>) @@
    ("size" :> <<115, 105, 122, 101>>) @@
    ("OpenShmem" :> <<79, 112, 101, 110, 83, 104, 109, 101, 109>>) @@
    ("CloseShmem" :> <<67, 108, 111, 115, 101, 83, 104, 109, 101, 109>>) @@
    ("OpenedShmem" :> <<79, 112, 101, 110, 101, 100, 83, 104, 109, 101, 109>>) @@
    ("ClosedShmem" :> <<67, 108, 111, 115, 101, 100, 83, 104, 109, 101, 109>>) @@
    ("shm1" :> <<115, 104, 109, 49>>) @@
    ("shm2" :> <<115, 104, 109, 50>>) @@
    ("GetCurrentVehicles" :> <<71, 101, 116, 67, 117, 114, 114, 101, 110, 116, 86, 101, 104, 105, 99, 108, 101, 115>>) @@
    ("model" :> <<109, 111, 100, 101, 108>>) @@
    ("port" :> <<112, 111, 114, 116>>) @@
    ("etk800" :> <<101, 116, 107, 56, 48, 48>>) @@
    ("Quit" :> <<81, 117, 105, 116>>) @@
    ("SpawnVehicle" :> <<83, 112, 97, 119, 110, 86, 101, 104, 105, 99, 108, 101>>) @@
    ("AddIMUPosition" :> <<65, 100, 100, 73, 77, 85, 80, 111, 115, 105, 116, 105, 111, 110>>) @@
    ("RemoveIMU" :> <<82, 101, 109, 111, 118, 101, 73, 77, 85>>) @@
    ("IMUPositionAdded" :> <<73, 77, 85, 80, 111, 115, 105, 116, 105, 111, 110, 65, 100, 100, 101, 100>>) @@
    ("IMURemoved" :> <<73, 77, 85, 82, 101, 109, 111, 118, 101, 100>>) @@
    ("imu1" :> <<105, 109, 117, 49>>) @@
    ("imu9" :> <<105, 109, 117, 57>>) @@
    ("" :> <<>>)

\* The serialised list of levels, a string of BlobLen bytes.
Blob == "<levels>"
BlobLen == 65537

ToBytes(s) == IF s = Blob THEN [i \in 1..BlobLen |-> 65] ELSE CharCodes[s]

FromBytes(b) ==
    IF Len(b) = BlobLen THEN Blob
    ELSE IF \E s \in DOMAIN CharCodes : CharCodes[s] = b
         THEN CHOOSE s \in DOMAIN CharCodes : CharCodes[s] = b
         ELSE "?"

(***************************************************************************)
(* Messages.  A Lua table with string keys is a function from keys to      *)
(* values; a value carries its Lua type, <<"str", s>> or <<"num", n>>.     *)
(***************************************************************************)
Str(s) == <<"str", s>>
Num(n) == <<"num", n>>
IsStr(v) == v[1] = "str"
IsNum(v) == v[1] = "num"

\* A Lua table used as an array; the arrays of the model hold numbers.
Arr(a) == <<"arr", a>>
IsArr(v) == v[1] = "arr"

\* A Lua table with string keys held as a value of another table.
Tbl(t) == <<"tbl", t>>
IsTbl(v) == v[1] = "tbl"
EmptyTable == [x \in {} |-> Str(Nil)]

\* The order in which pairs() visits the keys of a message.
KeyOrder == <<"type", "protocolVersion", "path", "count", "name", "vid",
              "result", "bngValueError", "bngError", "id", "level", "info",
              "vehicle", "pos", "rot", "color", "radius", "sphereID", "someName",
              "size", "sensors", "data", "shmem", "instance", "image",
              "direction", "fov", "resolution", "near_far", "points",
              "cam1", "cam2", "lidar1", "lidar9", "other1", "model", "port",
              "car1", "car2">>

Field(message, key) == IF key \in DOMAIN message THEN message[key] ELSE Str(Nil)

\* The keys of a table in the order pairs() and next() visit them.
keysOf(t) == SelectSeq(KeyOrder, LAMBDA k : k \in DOMAIN t)

(***************************************************************************)
(* mp.pack / mp.unpack: MessagePack with the string_compat and unsigned    *)
(* settings (fixmap, nested; fixarray; fixstr, str16, str32; positive fixint, *)
(* uint8, uint16).                                                         *)
(***************************************************************************)
BE2(n) == <<n \div 256, n % 256>>
BE4(n) == <<n \div 16777216, (n \div 65536) % 256, (n \div 256) % 256, n % 256>>
FromBE(b) == IF Len(b) = 2 THEN b[1] * 256 + b[2]
             ELSE ((b[1] * 256 + b[2]) * 256 + b[3]) * 256 + b[4]

packString(s) ==
    LET b == ToBytes(s)
        n == Len(b)
    IN  IF n <= 31 THEN <<160 + n>> \o b
        ELSE IF n <= 65535 THEN <<218>> \o BE2(n) \o b
        ELSE <<219>> \o BE4(n) \o b

packInteger(n) ==
    IF n <= 127 THEN <<n>>
    ELSE IF n <= 255 THEN <<204, n>>
    ELSE <<205>> \o BE2(n)

RECURSIVE packItems(_)
packItems(a) == IF a = <<>> THEN <<>> ELSE packInteger(Head(a)) \o packItems(Tail(a))

RECURSIVE packPairs(_, _)

packValue(v) ==
    IF IsNum(v) THEN packInteger(v[2])
    ELSE IF IsArr(v) THEN <<144 + Len(v[2])>> \o packItems(v[2])
    ELSE IF IsTbl(v)
    THEN IF DOMAIN v[2] = {} THEN <<144>>
         ELSE <<128 + Cardinality(DOMAIN v[2])>> \o packPairs(v[2], 1)
    ELSE packString(v[2])

packPairs(message, i) ==
    IF i > Len(keysOf(message)) THEN <<>>
    ELSE packString(keysOf(message)[i]) \o packValue(message[keysOf(message)[i]])
         \o packPairs(message, i + 1)

pack(message) == <<128 + Cardinality(DOMAIN message)>> \o packPairs(message, 1)

\* One value at position p of data: [ok, val, next].
unpackValue(data, p) ==
    LET bad == [ok |-> FALSE, val |-> Num(0), next |-> p]
        str(from, n) ==
            IF from + n - 1 > Len(data) THEN bad
            ELSE [ok |-> TRUE, val |-> Str(FromBytes(SubSeq(data, from, from + n - 1))),
                  next |-> from + n]
    IN  IF p > Len(data) THEN bad
        ELSE LET t == data[p] IN
             IF t <= 127 THEN [ok |-> TRUE, val |-> Num(t), next |-> p + 1]
             ELSE IF t >= 160 /\ t <= 191 THEN str(p + 1, t - 160)
             ELSE IF t = 204
                  THEN IF p + 1 > Len(data) THEN bad
                       ELSE [ok |-> TRUE, val |-> Num(data[p + 1]), next |-> p + 2]
             ELSE IF t = 205
                  THEN IF p + 2 > Len(data) THEN bad
                       ELSE [ok |-> TRUE, val |-> Num(FromBE(SubSeq(data, p + 1, p + 2))),
                             next |-> p + 3]
             ELSE IF t = 217
                  THEN IF p + 1 > Len(data) THEN bad ELSE str(p + 2, data[p + 1])
             ELSE IF t = 218
                  THEN IF p + 2 > Len(data) THEN bad
                       ELSE str(p + 3, FromBE(SubSeq(data, p + 1, p + 2)))
             ELSE IF t = 219
                  THEN IF p + 4 > Len(data) THEN bad
                       ELSE str(p + 5, FromBE(SubSeq(data, p + 1, p + 4)))
             ELSE bad

\* n numbers of an array from position p: [ok, val (the array so far), next].
RECURSIVE unpackItems(_, _, _, _)
unpackItems(data, p, n, acc) ==
    LET item(v) == IF ~v.ok \/ ~IsNum(v.val) THEN [ok |-> FALSE, val |-> Arr(acc), next |-> p]
                   ELSE unpackItems(data, v.next, n - 1, Append(acc, v.val[2]))
    IN  IF n = 0 THEN [ok |-> TRUE, val |-> Arr(acc), next |-> p]
        ELSE item(unpackValue(data, p))

RECURSIVE unpackPairs(_, _, _, _)

asTbl(r) == [ok |-> r.ok, val |-> Tbl(r.val), next |-> r.next]

\* One value of a table at position p: an array, a table or a scalar.
unpackField(data, p) ==
    IF p <= Len(data) /\ data[p] >= 144 /\ data[p] <= 159
    THEN unpackItems(data, p + 1, data[p] - 144, <<>>)
    ELSE IF p <= Len(data) /\ data[p] >= 128 /\ data[p] <= 143
    THEN asTbl(unpackPairs(data, p + 1, data[p] - 128, EmptyTable))
    ELSE unpackValue(data, p)

\* n key/value pairs from position p: [ok, val (the table so far), next].
unpackPairs(data, p, n, acc) ==
    LET bad == [ok |-> FALSE, val |-> acc, next |-> p]
        pair(k, v) ==
            IF ~k.ok \/ ~IsStr(k.val) \/ ~v.ok THEN bad
            ELSE unpackPairs(data, v.next, n - 1,
                             [x \in DOMAIN acc \cup {k.val[2]} |->
                                 IF x = k.val[2] THEN v.val ELSE acc[x]])
        key(k) == IF ~k.ok THEN bad ELSE pair(k, unpackField(data, k.next))
    IN  IF n = 0 THEN [ok |-> TRUE, val |-> acc, next |-> p]
        ELSE key(unpackValue(data, p))

\* mp.unpack: [ok, kind, val].  ok is FALSE where the library raises an error
\* (missing bytes, extra bytes); kind is "map" for a table (an array is a
\* table without string keys), else "number" or "string".
unpack(data) ==
    IF Len(data) = 0 THEN [ok |-> FALSE, kind |-> "string", val |-> EmptyTable]
    ELSE IF data[1] >= 128 /\ data[1] <= 143
         THEN LET r == unpackPairs(data, 2, data[1] - 128, EmptyTable)
              IN  [ok |-> r.ok /\ r.next = Len(data) + 1, kind |-> "map", val |-> r.val]
         ELSE LET r == unpackField(data, 1)
              IN  [ok |-> r.ok /\ r.next = Len(data) + 1,
                   kind |-> IF IsNum(r.val) THEN "number"
                            ELSE IF IsArr(r.val) THEN "map" ELSE "string",
                   val |-> EmptyTable]

(***************************************************************************)
(* string.format('%016d', n) and tonumber(s) on a 16-byte header.          *)
(***************************************************************************)
HeaderLen == 16

RECURSIVE digits(_, _)
digits(n, width) ==
    IF width = 0 THEN <<>> ELSE Append(digits(n \div 10, width - 1), 48 + (n % 10))

RECURSIVE decimal(_)
decimal(n) == IF n < 10 THEN <<48 + n>> ELSE Append(decimal(n \div 10), 48 + (n % 10))

\* %016d pads with zeros to at least 16 characters and never truncates.
\* Variant: string.format('%16d', n), padded with spaces instead of zeros.
format16d(n) ==
    LET d == decimal(n)
    IN  IF Len(d) >= HeaderLen THEN d ELSE [i \in 1..(HeaderLen - Len(d)) |-> 32] \o d

format016d(n) == IF Len(decimal(n)) >= HeaderLen THEN decimal(n) ELSE digits(n, HeaderLen)

NotANumber == -1

RECURSIVE digitsValue(_, _)
digitsValue(s, acc) ==
    IF s = <<>> THEN acc ELSE digitsValue(Tail(s), acc * 10 + (Head(s) - 48))

\* Variant: tonumber(s, 16), the digits read in base 16.
RECURSIVE digitsValue16(_, _)
digitsValue16(s, acc) ==
    IF s = <<>> THEN acc ELSE digitsValue16(Tail(s), acc * 16 + (Head(s) - 48))

tonumber16(s) ==
    IF s # <<>> /\ \A i \in 1..Len(s) : s[i] >= 48 /\ s[i] <= 57
    THEN digitsValue16(s, 0) ELSE NotANumber

\* tonumber: the value of a string of decimal digits, nil for a string holding a
\* byte that no Lua numeral can hold.  (The inputs of the model hold, besides
\* digits, no space, sign, point, or hexadecimal or exponent letter.)
tonumber(s) ==
    IF s # <<>> /\ \A i \in 1..Len(s) : s[i] >= 48 /\ s[i] <= 57
    THEN digitsValue(s, 0) ELSE NotANumber

\* The bytes sendMessage writes for a message: the header, then the payload.
Frame(message) ==
    LET payload == pack(message)
        length == format016d(Len(payload))
    IN  length \o payload

(***************************************************************************)
(* The state.                                                              *)
(*   net   the TCP sockets: per socket the bytes in flight to the server   *)
(*         (wire), the bytes arrived and not yet read (inbuf), the bytes   *)
(*         the server wrote (out), whether the peer closed; the listen     *)
(*         queue of the game-engine server (backlog)                       *)
(*   ge    the locals of researchGE.lua                                    *)
(*   sim   what the handlers see of the simulator                          *)
(*   cli   the clients: handshake state, protocol version, requests sent   *)
(*   hist  history: per socket the messages passed to sendMessage (sent),  *)
(*         the results of receive that reached mp.unpack (rx) and the      *)
(*         frames the client wrote (csent), whether a peer wrote bytes     *)
(*         that are no frame (raw)                                         *)
(***************************************************************************)
VARIABLES net, ge, ve, sim, cli, hist

vars == <<net, ge, ve, sim, cli, hist>>

\* The connections clients make: to the port of the game engine, and to the
\* port of a vehicle (V to car1's, W to car2's).
Clients == {"A", "B"}
VehicleClients == {"V", "W"}
Sockets == Clients \cup VehicleClients

\* The program state the Lua operators work on; raised is set when a Lua error
\* aborts the running callback.
State == [net |-> net, ge |-> ge, ve |-> ve, sim |-> sim, hist |-> hist, raised |-> FALSE]

Raise(S) == [S EXCEPT !.raised = TRUE]

(***************************************************************************)
(* researchCommunication.lua                                               *)
(***************************************************************************)
protocolVersion == "v1.19"

\* newSet: the array part and the reverse table (value -> index).
newSet == [arr |-> <<>>, reverse |-> [v \in {} |-> 0]]

\* Variant: an insert without the test of reverse[value].
insertAgain(set, value) ==
    [arr |-> Append(set.arr, value),
     reverse |-> [v \in DOMAIN set.reverse \cup {value} |->
                     IF v = value THEN Len(set.arr) + 1 ELSE set.reverse[v]]]

insert(set, value) ==
    IF value \in DOMAIN set.reverse THEN set
    ELSE [arr |-> Append(set.arr, value),
          reverse |-> [v \in DOMAIN set.reverse \cup {value} |->
                          IF v = value THEN Len(set.arr) + 1 ELSE set.reverse[v]]]

\* Variant: a remove that moves the top to the freed index and leaves the
\* index kept for it as it was.
removeStale(set, value) ==
    IF value \notin DOMAIN set.reverse THEN set
    ELSE LET index == set.reverse[value]
             top == set.arr[Len(set.arr)]
             arr1 == SubSeq(set.arr, 1, Len(set.arr) - 1)
         IN  [arr |-> IF top # value THEN [arr1 EXCEPT ![index] = top] ELSE arr1,
              reverse |-> [v \in DOMAIN set.reverse \ {value} |-> set.reverse[v]]]

remove(set, value) ==
    IF value \notin DOMAIN set.reverse THEN set
    ELSE LET index == set.reverse[value]
             rev1 == [v \in DOMAIN set.reverse \ {value} |-> set.reverse[v]]
             top == set.arr[Len(set.arr)]
             arr1 == SubSeq(set.arr, 1, Len(set.arr) - 1)
         IN  IF top # value
             THEN [arr |-> [arr1 EXCEPT ![index] = top],
                   reverse |-> [v \in DOMAIN rev1 \cup {top} |->
                                   IF v = top THEN index ELSE rev1[v]]]
             ELSE [arr |-> arr1, reverse |-> rev1]

\* socket.select(clients, clients, 0): a socket is readable when bytes have
\* arrived on it or its peer has closed; it is writable unless its send buffer
\* is full.
IsReadable(S, skt) == Len(S.net.inbuf[skt]) > 0 \/ S.net.peerClosed[skt]
\* select reports a socket writable unless its send buffer is full
IsWritable(S, skt) == ~S.net.full[skt]
select(S, set) == SelectSeq(set.arr, LAMBDA skt : IsReadable(S, skt))

\* skt:receive(nil) reads a line: the bytes before the first LF, CR dropped.
LF == 10
CR == 13
HasLine(buf) == \E i \in 1..Len(buf) : buf[i] = LF
LineEnd(buf) == CHOOSE i \in 1..Len(buf) : buf[i] = LF /\ \A j \in 1..(i - 1) : buf[j] # LF

\* M.receive: [st, data, err, header].  Bytes that arrived for a read that
\* then fails are consumed: only the ignored third result of skt:receive has
\* them.
receive(S, skt) ==
    LET buf == S.net.inbuf[skt]
        fail(e, h) == [st |-> [S EXCEPT !.net.inbuf[skt] = <<>>], data |-> <<>>,
                       err |-> e, header |-> h]
        why == IF S.net.peerClosed[skt] THEN "closed" ELSE "timeout"
    IN  IF Len(buf) < HeaderLen THEN fail(why, <<>>)
        ELSE LET length == SubSeq(buf, 1, HeaderLen)
                 rest == SubSeq(buf, HeaderLen + 1, Len(buf))
                 n == tonumber(length)
             IN  IF n = NotANumber
                 THEN IF HasLine(rest)
                      THEN [st |-> [S EXCEPT !.net.inbuf[skt] =
                                       SubSeq(rest, LineEnd(rest) + 1, Len(rest))],
                            data |-> SelectSeq(SubSeq(rest, 1, LineEnd(rest) - 1),
                                               LAMBDA b : b # CR),
                            err |-> Nil, header |-> length]
                      ELSE fail(why, length)
                 ELSE IF Len(rest) < n THEN fail(why, length)
                 ELSE [st |-> [S EXCEPT !.net.inbuf[skt] = SubSeq(rest, n + 1, Len(rest))],
                       data |-> SubSeq(rest, 1, n), err |-> Nil, header |-> length]

\* M.receive of the older version of the file, the same text line by line.
receiveOlder(S, skt) == receive(S, skt)

\* proto.dissector of the Wireshark plugin, up to the payload: the length
\* is the first four bytes read as an unsigned big-endian number; with
\* fewer bytes than the length says it asks for more (ok is FALSE).
DissectorHeaderLen == 4
dissector(buffer) ==
    LET more == [ok |-> FALSE, length |-> 0, payload |-> <<>>]
        split(length) ==
            IF Len(buffer) < DissectorHeaderLen + length THEN more
            ELSE [ok |-> TRUE, length |-> length,
                  payload |-> SubSeq(buffer, DissectorHeaderLen + 1,
                                     DissectorHeaderLen + length)]
    IN  IF Len(buffer) < DissectorHeaderLen THEN more
        ELSE split(FromBE(SubSeq(buffer, 1, DissectorHeaderLen)))

\* M.sendMessage
sendMessage(S, skt, message) ==
    IF skt = Nil THEN S
    ELSE IF skt \notin Sockets THEN Raise(S)    \* skt:send, skt not a socket
    ELSE [S EXCEPT !.net.out[skt] = @ \o Frame(message),
                   !.hist.sent[skt] = Append(@, message)]

sendACK(S, skt, type) == sendMessage(S, skt, [type |-> Str(type)])

\* Variant: an error reply that carries a type as well.
sendBNGValueErrorTyped(S, skt, message) ==
    sendMessage(S, skt, [type |-> Str("bngValueError"), bngValueError |-> Str(message)])

sendBNGError(S, skt, message) == sendMessage(S, skt, [bngError |-> Str(message)])

sendBNGValueError(S, skt, message) == sendMessage(S, skt, [bngValueError |-> Str(message)])

\* M.checkForClients: every readable server socket accepts one connection.
checkForClients(S, servers) ==
    IF S.net.backlog[servers] = <<>> THEN [st |-> S, ret |-> <<>>]
    ELSE [st |-> [S EXCEPT !.net.backlog[servers] = Tail(@)],
          ret |-> <<Head(S.net.backlog[servers])>>]

(***************************************************************************)
(* researchGE.lua                                                          *)
(***************************************************************************)
\* The scenario files scenariosLoader.startByPath finds.
ScenarioPaths == {"/ok.json"}

\* The vehicles the engine can spawn, and obj:getID() of each.  When the engine
\* announces the vehicle vID, scenetree.findObject(name) is an object with
\* that id exactly when name is the name of that vehicle.
Vehicles == {"car1", "car2"}
getID(name) == IF name = "car1" THEN 1 ELSE 2

\* frameDelayFunc: nil, or a closure, held as the name of what it does (fn)
\* and the upvalues it keeps: the socket, and for a camera's closure the
\* sensor key, the requests left, the response so far and the first image.
NoFunc == [fn |-> Nil, skt |-> Nil, key |-> Nil, requests |-> EmptyTable,
           response |-> EmptyTable, data |-> EmptyTable]

block(S, reason, skt) == [S EXCEPT !.ge.blocking = reason, !.ge.waiting = skt]

stopBlocking(S) == [S EXCEPT !.ge.blocking = Nil, !.ge.waiting = Nil]

\* A handler's result: the state it leaves and whether it returned a true value.
Ret(S, r) == [st |-> S, ret |-> r]

\* Variant: a Hello handler that answers with the version the client sent.
handleHelloEcho(S, skt, msg) ==
    LET resp == [type |-> Str("Hello"), protocolVersion |-> Field(msg, "protocolVersion")]
    IN  Ret(sendMessage(S, skt, resp), FALSE)

handleHello(S, skt, msg) ==
    LET resp == [type |-> Str("Hello"), protocolVersion |-> Str(protocolVersion)]
    IN  Ret(sendMessage(S, skt, resp), FALSE)

handleQuit(S, skt, msg) ==
    LET S1 == sendACK(S, skt, "Quit")
    IN  Ret([S1 EXCEPT !.ge.quitRequested = TRUE, !.ge.blocking = "quit"], FALSE)

\* Variant: a LoadScenario handler that blocks before it looks for the path.
handleLoadScenarioBlockFirst(S, skt, msg) ==
    LET scenarioPath == Field(msg, "path")[2]
        ret == scenarioPath \in ScenarioPaths
        S1 == block(S, "loadScenario", skt)
    IN  IF ret THEN Ret(S1, TRUE)
        ELSE Ret(sendBNGValueError(S1, skt, "Scenario not found: \"" \o scenarioPath \o "\""),
                 TRUE)

handleLoadScenario(S, skt, msg) ==
    LET scenarioPath == Field(msg, "path")[2]
        ret == scenarioPath \in ScenarioPaths
    IN  IF ret THEN Ret(block(S, "loadScenario", skt), TRUE)
        ELSE Ret(sendBNGValueError(S, skt, "Scenario not found: \"" \o scenarioPath \o "\""),
                 TRUE)

\* Variant: StartScenario acknowledged when it is handled.
handleStartScenarioAck(S, skt, msg) ==
    Ret(block(sendACK(S, skt, "ScenarioStarted"), "startScenario", skt), TRUE)

handleStartScenario(S, skt, msg) == Ret(block(S, "startScenario", skt), TRUE)

handleRestartScenario(S, skt, msg) == Ret(block(S, "restartScenario", skt), TRUE)

handleStopScenario(S, skt, msg) == Ret(block(S, "returnMainMenu", skt), TRUE)

handleHideHUD(S, skt, msg) == Ret(S, FALSE)

handlePause(S, skt, msg) == Ret(sendACK(S, skt, "Paused"), FALSE)

handleStep(S, skt, msg) ==
    LET count == Field(msg, "count")[2]
    IN  Ret(block([S EXCEPT !.ge.stepsLeft = count], "step", skt), TRUE)

handleWaitForSpawn(S, skt, msg) ==
    LET name == Field(msg, "name")[2]
    IN  Ret(block([S EXCEPT !.ge.spawnPending = name], "spawnVehicle", skt), FALSE)

\* M.handleSpawnVehicle: pos[1] raises when the request has no pos; the
\* spawn that core_vehicles.spawnNewVehicle starts is announced by the
\* engine with the hook onVehicleSpawned.
handleSpawnVehicle(S, skt, msg) ==
    LET name == Field(msg, "name")[2]
    IN  IF ~IsArr(Field(msg, "pos")) THEN Ret(Raise(S), FALSE)
        ELSE Ret(block([S EXCEPT !.ge.spawnPending = name], "spawnVehicle", skt), FALSE)

handleGetLevels(S, skt, msg) ==
    LET resp == [type |-> Str("GetLevels"), result |-> Str(Blob)]
    IN  Ret(sendMessage(S, skt, resp), FALSE)

\* M.handleStartUSSensorVisualization: msg's pos, rot and color are indexed,
\* which raises an error on nil and on a number and gives nil on a string;
\* the sphere's callback runs later, when the debug objects are drawn.
handleStartUSSensorVisualization(S, skt, msg) ==
    LET indexable(key) == key \in DOMAIN msg /\ ~IsNum(msg[key])
        sphereID == S.ge.dynamicSphereNum + 1
    IN  IF ~(indexable("pos") /\ indexable("rot") /\ indexable("color"))
        THEN Ret(Raise(S), FALSE)
        ELSE Ret(sendMessage([S EXCEPT !.ge.dynamicSphereNum = sphereID], skt,
                             [sphereID |-> Num(sphereID)]), FALSE)

\* M.handleGetCurrentScenario; scenario_scenarios is the extension the engine
\* loads with a scenario, and result the entry of the scenario list with the
\* source file of the running scenario, here named by its path.
handleGetCurrentScenario(S, skt, msg) ==
    IF S.sim.scenario = Nil THEN Ret(sendBNGValueError(S, skt, "No scenario loaded."), FALSE)
    ELSE Ret(sendMessage(S, skt, [type |-> Str("GetCurrentScenario"),
                                  result |-> Str(S.sim.scenario)]), FALSE)

\* M.handleCreateScenario; the files are written under the level's directory,
\* which is taken to exist.  name and level are strings.
handleCreateScenario(S, skt, msg) ==
    IF "name" \notin DOMAIN msg
    THEN Ret(sendBNGValueError(S, skt, "Scenario needs a name."), FALSE)
    ELSE IF "level" \notin DOMAIN msg
    THEN Ret(sendBNGValueError(S, skt, "Scenario needs an associated level."), FALSE)
    ELSE IF "info" \notin DOMAIN msg
    THEN Ret(sendBNGValueError(S, skt, "Scenario needs an info file definition."), FALSE)
    ELSE LET path == "/levels/" \o msg.level[2] \o "/scenarios/"
             infoPath == path \o msg.name[2] \o ".json"
         IN  Ret(sendMessage(S, skt, [type |-> Str("CreateScenario"),
                                      result |-> Str(infoPath)]), FALSE)

\* M.handleGetObject; Sim.findObjectById finds the vehicles, and the
\* serialised object is named here by the object's name.  id is a number.
handleGetObject(S, skt, msg) ==
    LET id == Field(msg, "id")[2]
    IN  IF \E n \in Vehicles : getID(n) = id
        THEN Ret(sendMessage(S, skt,
                     [type |-> Str("GetObject"),
                      result |-> Str(CHOOSE n \in Vehicles : getID(n) = id)]), FALSE)
        ELSE Ret(sendBNGValueError(S, skt, "Unknown object ID: " \o ToString(id)), FALSE)

\* Engine.openShmem and Engine.closeShmem: the engine keeps the regions that
\* are open by name; closing a name that is not open does nothing.
openShmem(S, name, size) == [S EXCEPT !.sim.shmem = @ \cup {name}]
closeShmem(S, name) == [S EXCEPT !.sim.shmem = @ \ {name}]

\* M.handleOpenShmem
handleOpenShmem(S, skt, msg) ==
    Ret(sendACK(openShmem(S, Field(msg, "name")[2], Field(msg, "size")[2]),
                skt, "OpenedShmem"), FALSE)

\* Variant: a close that acknowledges only a region that was open.
handleCloseShmemOnce(S, skt, msg) ==
    IF Field(msg, "name")[2] \in S.sim.shmem
    THEN Ret(sendACK(closeShmem(S, Field(msg, "name")[2]), skt, "ClosedShmem"), FALSE)
    ELSE Ret(S, FALSE)

\* M.handleCloseShmem
handleCloseShmem(S, skt, msg) ==
    Ret(sendACK(closeShmem(S, Field(msg, "name")[2]), skt, "ClosedShmem"), FALSE)

(***************************************************************************)
(* Sensors.  msg['sensors'] maps a key to a request; getNextSensorData     *)
(* takes the requests one by one, each sensor calling back with its data,  *)
(* at once or later, and the last callback sends the response.             *)
(***************************************************************************)
\* next(t): the first key of the table, nil for an empty table.
nextKey(t) == IF keysOf(t) = <<>> THEN Nil ELSE keysOf(t)[1]

\* t[k] = nil and t[k] = v
without(t, k) == [x \in DOMAIN t \ {k} |-> t[x]]
with(t, k, v) == [x \in DOMAIN t \cup {k} |-> IF x = k THEN v ELSE t[x]]

RECURSIVE getNextSensorData(_, _, _, _)

\* The closure cb of getNextSensorData, called with data and with nil.
cbData(S, skt, key, rest, response, data) ==
    getNextSensorData(S, skt, rest, with(response, key, Tbl(data)))
cbNil(S, skt, key, rest, response) == getNextSensorData(S, skt, rest, response)

\* The fields sensors.Camera indexes or computes with.
CameraArrays == {"direction", "resolution", "near_far", "pos"}
CameraImage == [image |-> Str("Camera")]

\* sensors.Camera: renders at once; with instance annotation asked for it
\* leaves the second rendering and the callback to the next frame.
sensors_Camera(S, skt, key, req, rest, response) ==
    IF \/ \E f \in CameraArrays : f \notin DOMAIN req \/ ~IsArr(req[f])
       \/ "fov" \notin DOMAIN req \/ ~IsNum(req.fov)
    THEN Raise(S)
    ELSE IF "instance" \in DOMAIN req
    THEN [S EXCEPT !.ge.frameDelayTimer = 1,
                   !.ge.frameDelayFunc = [fn |-> "Camera", skt |-> skt, key |-> key,
                                          requests |-> rest, response |-> response,
                                          data |-> CameraImage]]
    ELSE cbData(S, skt, key, rest, response, CameraImage)

\* The closure sensors.Camera leaves in frameDelayFunc.
cameraDelayed(S, f) ==
    cbData(S, f.skt, f.key, f.requests, f.response,
           with(f.data, "instance", Str("Camera")))

\* Variant: a lidar that calls back with the size before the data is written.
sensors_LidarEager(S, skt, key, req, rest, response) ==
    IF "name" \notin DOMAIN req \/ req.name[2] \notin S.sim.lidars
    THEN cbNil(S, skt, key, rest, response)
    ELSE cbData(S, skt, key, rest, response, [size |-> Num(8)])

\* sensors.Lidar: lidar:requestDataShmem and lidar:requestData take the
\* callback and call it when the data is there.
sensors_Lidar(S, skt, key, req, rest, response) ==
    IF "name" \notin DOMAIN req \/ req.name[2] \notin S.sim.lidars
    THEN cbNil(S, skt, key, rest, response)
    ELSE [S EXCEPT !.sim.lidarPending =
             Append(@, [skt |-> skt, key |-> key, requests |-> rest,
                        response |-> response, shmem |-> "shmem" \in DOMAIN req])]

\* The callback the lidar calls when its data is there.
lidarReady(S, p) ==
    cbData(S, p.skt, p.key, p.requests, p.response,
           IF p.shmem THEN [size |-> Num(8)] ELSE [points |-> Arr(<<1, 2, 3>>)])

\* getSensorData: a request that is a number cannot be indexed; one that is
\* no table or has no type, or a type without a handler, gives nil.
getSensorData(S, skt, key, request, rest, response) ==
    IF IsNum(request) THEN Raise(S)
    ELSE IF ~IsTbl(request) \/ "type" \notin DOMAIN request[2]
    THEN cbNil(S, skt, key, rest, response)
    ELSE IF request[2].type = Str("Camera")
    THEN sensors_Camera(S, skt, key, request[2], rest, response)
    ELSE IF request[2].type = Str("Lidar")
    THEN sensors_Lidar(S, skt, key, request[2], rest, response)
    ELSE cbNil(S, skt, key, rest, response)

getNextKey(S, skt, key, requests, response) ==
    IF key = Nil
    THEN sendMessage(S, skt, [type |-> Str("SensorData"), data |-> Tbl(response)])
    ELSE getSensorData(S, skt, key, requests[key], without(requests, key), response)

getNextSensorData(S, skt, requests, response) ==
    getNextKey(S, skt, nextKey(requests), requests, response)

\* M.handleSensorRequest; next(nil) raises, an empty array is an empty table.
handleSensorRequest(S, skt, msg) ==
    IF "sensors" \notin DOMAIN msg THEN Ret(Raise(S), TRUE)
    ELSE IF IsTbl(msg.sensors) THEN Ret(getNextSensorData(S, skt, msg.sensors[2], EmptyTable), TRUE)
    ELSE IF msg.sensors = Arr(<<>>) THEN Ret(getNextSensorData(S, skt, EmptyTable, EmptyTable), TRUE)
    ELSE Ret(Raise(S), TRUE)

\* M.handleSetRelativeCam: the closure indexes pos when it runs.
handleSetRelativeCam(S, skt, msg) ==
    Ret([S EXCEPT !.ge.frameDelayTimer = 3,
                  !.ge.frameDelayFunc = [fn |-> "RelativeCamSet", skt |-> skt, key |-> Nil,
                                         requests |-> EmptyTable, response |-> EmptyTable,
                                         data |-> msg]], FALSE)

relativeCamDelayed(S, f) ==
    IF "pos" \notin DOMAIN f.data \/ ~IsArr(f.data.pos) THEN Raise(S)
    ELSE sendACK(S, f.skt, "RelativeCamSet")

\* The vehicle the requests of SpecHello name, and the ports the system may
\* give a vehicle's server.
EgoVehicle == "car1"
Ports == {64256, 64257}

\* veh:queueLuaCommand(command), for the vehicle named vid
queueLuaCommand(S, vid, command) ==
    [S EXCEPT !.sim.vehLua = Append(@, [veh |-> vid, cmd |-> command])]

\* obj:queueGameEngineLua(cmd), cmd a call of the hook onVehicleConnectionReady
queueGameEngineLua(S, vehicleID, port) ==
    [S EXCEPT !.sim.geLua = Append(@, [hook |-> "onVehicleConnectionReady",
                                       vehicleID |-> vehicleID, port |-> port])]

\* obj:queueGameEngineLua(cmd), cmd a call of the hook onVehicleInfoReady
queueVehicleInfoReady(S, vehicleID, port) ==
    [S EXCEPT !.sim.geLua = Append(@, [hook |-> "onVehicleInfoReady",
                                       vehicleID |-> vehicleID, port |-> port])]

\* Variant: StartVehicleConnection answered when it is handled, before the
\* vehicle has a port.
handleStartVehicleConnectionAck(S, skt, msg) ==
    LET vid == Field(msg, "vid")[2]
        resp == [type |-> Str("StartVehicleConnection"), vid |-> Str(vid),
                 result |-> Num(S.ve[vid].port)]
    IN  IF vid \notin Vehicles THEN Ret(Raise(S), FALSE)
        ELSE Ret(queueLuaCommand(
                     queueLuaCommand(sendMessage(S, skt, resp), vid, "extensions.load"),
                     vid, "researchVE.startConnection"), TRUE)

handleStartVehicleConnection(S, skt, msg) ==
    LET vid == Field(msg, "vid")[2]
    IN  IF vid \notin Vehicles THEN Ret(Raise(S), FALSE)
        ELSE LET S1 == queueLuaCommand(S, vid, "extensions.load")
                 S2 == block(S1, "vehicleConnection", skt)
             IN  Ret(queueLuaCommand(S2, vid, "researchVE.startConnection"), TRUE)

onVehicleConnectionReady(S, vehicleID, port) ==
    IF S.ge.blocking = "vehicleConnection"
    THEN LET name == CHOOSE n \in Vehicles : getID(n) = vehicleID
             resp == [type |-> Str("StartVehicleConnection"), vid |-> Str(name),
                      result |-> Num(port)]
         IN  stopBlocking(sendMessage(S, S.ge.waiting, resp))
    ELSE S

\* What veh:getJBeamFilename() gives for the vehicles of the model.
JBeamFilename == "etk800"

\* The table info that M.handleGetCurrentVehicles fills for one vehicle;
\* config and options, data of the simulator, are left out of it.
vehicleInfoOf(v) ==
    [id |-> Num(getID(v)), model |-> Str(JBeamFilename), name |-> Str(v)]

\* The loop of M.handleGetCurrentVehicles over map.objects, objs the
\* vehicles it has yet to visit.  vehicleInfo is Str(Nil) or Tbl(t), t held
\* by vehicle name.
RECURSIVE queryVehicles(_, _)
queryVehicles(S, objs) ==
    IF objs = <<>> THEN S
    ELSE LET v == Head(objs)
             S1 == [S EXCEPT !.ge.vehicleInfo = Tbl(with(@[2], v, vehicleInfoOf(v))),
                             !.ge.vehicleInfoPending = @ + 1]
             S2 == queueLuaCommand(S1, v, "extensions.load")
         IN  queryVehicles(queueLuaCommand(S2, v, "researchVE.requestVehicleInfo"),
                           Tail(objs))

handleGetCurrentVehicles(S, skt, msg) ==
    LET S1 == queryVehicles([S EXCEPT !.ge.vehicleInfo = Tbl(EmptyTable)],
                            keysOf([v \in S.sim.objects |-> TRUE]))
    IN  Ret(block(S1, "vehicleInfo", skt), FALSE)

\* resp of M.onVehicleInfoReady: the infos under their vehicle's name
vehicleInfoResult(vehicleInfo) ==
    [type |-> Str("GetCurrentVehicles"),
     result |-> Tbl([v \in DOMAIN vehicleInfo |-> Tbl(vehicleInfo[v])])]

\* Variant: onVehicleInfoReady without the test of blocking.
onVehicleInfoReadyUnguarded(S, vehicleID, info) ==
    LET name == CHOOSE n \in Vehicles : getID(n) = vehicleID
        S1 == [S EXCEPT !.ge.vehicleInfo[2][name] = with(@, "port", Num(info.port)),
                        !.ge.vehicleInfoPending = @ - 1]
    IN  IF ~IsTbl(S.ge.vehicleInfo) THEN Raise(S)
        ELSE IF name \notin DOMAIN S.ge.vehicleInfo[2] THEN Raise(S)
        ELSE IF S1.ge.vehicleInfoPending = 0
        THEN stopBlocking(sendMessage([S1 EXCEPT !.ge.vehicleInfo = Str(Nil)],
                                      S.ge.waiting,
                                      vehicleInfoResult(S1.ge.vehicleInfo[2])))
        ELSE S1

onVehicleInfoReady(S, vehicleID, info) ==
    LET name == CHOOSE n \in Vehicles : getID(n) = vehicleID
        S1 == [S EXCEPT !.ge.vehicleInfo[2][name] = with(@, "port", Num(info.port)),
                        !.ge.vehicleInfoPending = @ - 1]
    IN  IF S.ge.blocking = "vehicleInfo"
        THEN IF ~IsTbl(S.ge.vehicleInfo) THEN Raise(S)
             ELSE IF name \notin DOMAIN S.ge.vehicleInfo[2] THEN Raise(S)
             ELSE IF S1.ge.vehicleInfoPending = 0
             THEN stopBlocking(sendMessage([S1 EXCEPT !.ge.vehicleInfo = Str(Nil)],
                                           S.ge.waiting,
                                           vehicleInfoResult(S1.ge.vehicleInfo[2])))
             ELSE S1
        ELSE S

(***************************************************************************)
(* researchVE.lua                                                          *)
(***************************************************************************)
VEConSleep == 60

\* the locals of researchVE.lua when the extension is loaded
VELocals == [server |-> FALSE, clients |-> newSet, port |-> 0, conSleep |-> VEConSleep,
             imuLoaded |-> FALSE, imus |-> {}]

\* Variant: startConnection that opens a server at every call.
VE_startConnectionReopen(S, veh, p) ==
    LET S1 == [S EXCEPT !.ve[veh].server = TRUE, !.ve[veh].port = p,
                        !.ve[veh].clients = newSet]
    IN  queueGameEngineLua(S1, getID(veh), S1.ve[veh].port)

\* M.startConnection; p is the port the system gives openServer(0).
VE_startConnection(S, veh, p) ==
    LET S1 == IF ~S.ve[veh].server
              THEN [S EXCEPT !.ve[veh].server = TRUE, !.ve[veh].port = p,
                             !.ve[veh].clients = newSet]
              ELSE S
    IN  queueGameEngineLua(S1, getID(veh), S1.ve[veh].port)

\* M.requestVehicleInfo
VE_requestVehicleInfo(S, veh) == queueVehicleInfoReady(S, getID(veh), S.ve[veh].port)

\* Variant: a Hello handler that answers twice.
VE_handleHelloTwice(S, skt, msg) ==
    LET resp == [type |-> Str("Hello"), protocolVersion |-> Str(protocolVersion)]
    IN  Ret(sendMessage(sendMessage(S, skt, resp), skt, resp), FALSE)

VE_handleHello(S, skt, msg) ==
    LET resp == [type |-> Str("Hello"), protocolVersion |-> Str(protocolVersion)]
    IN  Ret(sendMessage(S, skt, resp), FALSE)

\* M.handleAddIMUPosition; the extension imu, once loaded, keeps the IMUs of
\* the vehicle by name.
VE_handleAddIMUPosition(S, veh, skt, msg) ==
    LET name == Field(msg, "name")[2]
        S1 == [S EXCEPT !.ve[veh].imuLoaded = TRUE, !.ve[veh].imus = @ \cup {name}]
    IN  IF ~IsArr(Field(msg, "pos")) THEN Ret(Raise(S), FALSE)
        ELSE Ret(sendACK(S1, skt, "IMUPositionAdded"), FALSE)

\* M.handleRemoveIMU; imu.removeIMU gives the IMU of that name, or nil.
\* rcom.sendBNGValueError is called with the text alone: the text is its
\* skt and its message is nil.
VE_handleRemoveIMU(S, veh, skt, msg) ==
    LET name == Field(msg, "name")[2]
        S1 == [S EXCEPT !.ve[veh].imus = @ \ {name}]
    IN  IF ~S.ve[veh].imuLoaded THEN Ret(Raise(S), FALSE)
        ELSE IF name \in S.ve[veh].imus THEN Ret(sendACK(S1, skt, "IMURemoved"), FALSE)
        ELSE Ret(sendBNGValueError(S, "Unknown IMU: " \o name, Nil), FALSE)

VE_callHandler(S, veh, t, skt, msg) ==
    CASE t = "AddIMUPosition" -> VE_handleAddIMUPosition(S, veh, skt, msg)
      [] t = "RemoveIMU" -> VE_handleRemoveIMU(S, veh, skt, msg)
      [] OTHER -> VE_handleHello(S, skt, msg)

GEHandlers == {"Hello", "Quit", "LoadScenario", "StartScenario", "RestartScenario",
               "StopScenario", "HideHUD", "Pause", "Step", "WaitForSpawn", "GetLevels",
               "StartVehicleConnection", "StartUSSensorVisualization",
               "GetCurrentScenario", "CreateScenario", "GetObject",
               "OpenShmem", "CloseShmem", "SensorRequest", "SetRelativeCam",
               "GetCurrentVehicles", "SpawnVehicle"}
VEHandlers == {"Hello", "AddIMUPosition", "RemoveIMU"}

\* E[msgType] for the handler tables E: "GE" is researchGE's M, a vehicle's
\* name is the M of researchVE in that vehicle's Lua state.
HasHandler(E, t) == IF E = "GE" THEN t \in GEHandlers ELSE t \in VEHandlers

callHandler(S, E, t, skt, msg) ==
    CASE E # "GE" -> VE_callHandler(S, E, t, skt, msg)
      [] t = "StartVehicleConnection" -> handleStartVehicleConnection(S, skt, msg)
      [] t = "Hello" -> handleHello(S, skt, msg)
      [] t = "Quit" -> handleQuit(S, skt, msg)
      [] t = "GetCurrentVehicles" -> handleGetCurrentVehicles(S, skt, msg)
      [] t = "LoadScenario" -> handleLoadScenario(S, skt, msg)
      [] t = "StartScenario" -> handleStartScenario(S, skt, msg)
      [] t = "RestartScenario" -> handleRestartScenario(S, skt, msg)
      [] t = "StopScenario" -> handleStopScenario(S, skt, msg)
      [] t = "HideHUD" -> handleHideHUD(S, skt, msg)
      [] t = "Pause" -> handlePause(S, skt, msg)
      [] t = "Step" -> handleStep(S, skt, msg)
      [] t = "WaitForSpawn" -> handleWaitForSpawn(S, skt, msg)
      [] t = "SpawnVehicle" -> handleSpawnVehicle(S, skt, msg)
      [] t = "GetLevels" -> handleGetLevels(S, skt, msg)
      [] t = "StartUSSensorVisualization" -> handleStartUSSensorVisualization(S, skt, msg)
      [] t = "GetCurrentScenario" -> handleGetCurrentScenario(S, skt, msg)
      [] t = "CreateScenario" -> handleCreateScenario(S, skt, msg)
      [] t = "GetObject" -> handleGetObject(S, skt, msg)
      [] t = "OpenShmem" -> handleOpenShmem(S, skt, msg)
      [] t = "CloseShmem" -> handleCloseShmem(S, skt, msg)
      [] t = "SensorRequest" -> handleSensorRequest(S, skt, msg)
      [] t = "SetRelativeCam" -> handleSetRelativeCam(S, skt, msg)

\* The client set of a handler table.
clientsOf(S, E) == IF E = "GE" THEN S.ge.clients ELSE S.ve[E].clients
removeClient(S, E, skt) ==
    IF E = "GE" THEN [S EXCEPT !.ge.clients = remove(@, skt)]
    ELSE [S EXCEPT !.ve[E].clients = remove(@, skt)]

(***************************************************************************)
(* The example mod's game-engine extension gameEngineCode: its hook         *)
(* onSocketMessage looks up handle<type> in the extension and logs when     *)
(* there is none; handleFoo greets and acknowledges.                        *)
(***************************************************************************)
Text(v) == IF IsStr(v) THEN v[2] ELSE ToString(v[2])

logMod(S, skt, level, text) ==
    [S EXCEPT !.hist.log[skt] =
        Append(@, [level |-> level, tag |-> "gameEngineCode", text |-> text])]

Mod_handleFoo(S, skt, msg) ==
    IF "someName" \notin DOMAIN msg \/ IsArr(msg.someName) THEN Raise(S)
    ELSE sendACK(logMod(S, skt, "I", "Hello " \o Text(msg.someName) \o "!"), skt, "Goodbye!")

Mod_onSocketMessage(S, skt, msg) ==
    IF IsArr(msg.type) THEN Raise(S)
    ELSE IF msg.type = Str("Foo") THEN Mod_handleFoo(S, skt, msg)
    ELSE logMod(S, skt, "E", "handler does not exist: handle" \o Text(msg.type))

\* extensions.hook('onSocketMessage', skt, message): every loaded extension
\* that defines the function is called; the model knows one such extension,
\* of the game engine.
hook(S, E, skt, message) ==
    IF E = "GE" /\ "gameEngineCode" \in S.sim.extensions
    THEN Mod_onSocketMessage(S, skt, message)
    ELSE S

\* Variant: a loop body that calls the hook for every message with a type,
\* before the built-in handler when there is one.
dispatchHookAll(r, E, skt, ret, u) ==
    LET S1 == [r.st EXCEPT !.hist.rx[skt] =
                  Append(@, [header |-> r.header, len |-> Len(r.data),
                             ok |-> u.ok /\ u.kind = "map", msg |-> u.val])]
        returned(h) == Ret(h.st, IF h.ret THEN FALSE ELSE ret)
        logged == [S1 EXCEPT !.hist.log[skt] =
                      Append(@, [level |-> "E", tag |-> "researchCommunication",
                                 text |-> "Got message without message type"])]
        called(to) == [S1 EXCEPT !.hist.calls[skt] = Append(@, [to |-> to, msg |-> u.val])]
    IN  IF ~u.ok THEN Ret(Raise(S1), ret)
        ELSE IF u.kind # "map"
        THEN IF u.kind = "number" THEN Ret(Raise(S1), ret) ELSE Ret(logged, ret)
        ELSE IF "type" \notin DOMAIN u.val THEN Ret(logged, ret)
        ELSE IF IsStr(u.val.type) /\ HasHandler(E, u.val.type[2])
        THEN returned(callHandler(hook(called("handler"), E, skt, u.val), E,
                                  u.val.type[2], skt, u.val))
        ELSE Ret(hook(called("onSocketMessage"), E, skt, u.val), ret)

\* Variant: a loop body that gives up the frame's reading at a message
\* without a type.
dispatchStrict(r, E, skt, ret, u) ==
    LET S1 == [r.st EXCEPT !.hist.rx[skt] =
                  Append(@, [header |-> r.header, len |-> Len(r.data),
                             ok |-> u.ok /\ u.kind = "map", msg |-> u.val])]
        returned(h) == Ret(h.st, IF h.ret THEN FALSE ELSE ret)
        logged == [S1 EXCEPT !.hist.log[skt] =
                      Append(@, [level |-> "E", tag |-> "researchCommunication",
                                 text |-> "Got message without message type"])]
        called(to) == [S1 EXCEPT !.hist.calls[skt] = Append(@, [to |-> to, msg |-> u.val])]
    IN  IF ~u.ok THEN Ret(Raise(S1), ret)
        ELSE IF u.kind # "map"
        THEN IF u.kind = "number" THEN Ret(Raise(S1), ret) ELSE Ret(logged, FALSE)
        ELSE IF "type" \notin DOMAIN u.val THEN Ret(logged, FALSE)
        ELSE IF IsStr(u.val.type) /\ HasHandler(E, u.val.type[2])
        THEN returned(callHandler(called("handler"), E, u.val.type[2], skt, u.val))
        ELSE Ret(hook(called("onSocketMessage"), E, skt, u.val), ret)

\* M.checkMessages, the loop body from mp.unpack on: r is what M.receive
\* returned and u what mp.unpack returns.
dispatch(r, E, skt, ret, u) ==
    LET S1 == [r.st EXCEPT !.hist.rx[skt] =
                  Append(@, [header |-> r.header, len |-> Len(r.data),
                             ok |-> u.ok /\ u.kind = "map", msg |-> u.val])]
        returned(h) == Ret(h.st, IF h.ret THEN FALSE ELSE ret)
        logged == [S1 EXCEPT !.hist.log[skt] =
                      Append(@, [level |-> "E", tag |-> "researchCommunication",
                                 text |-> "Got message without message type"])]
        called(to) == [S1 EXCEPT !.hist.calls[skt] = Append(@, [to |-> to, msg |-> u.val])]
    IN  IF ~u.ok THEN Ret(Raise(S1), ret)
        ELSE IF u.kind # "map"
        THEN IF u.kind = "number" THEN Ret(Raise(S1), ret) ELSE Ret(logged, ret)
        ELSE IF "type" \notin DOMAIN u.val THEN Ret(logged, ret)
        ELSE IF IsStr(u.val.type) /\ HasHandler(E, u.val.type[2])
        THEN returned(callHandler(called("handler"), E, u.val.type[2], skt, u.val))
        ELSE Ret(hook(called("onSocketMessage"), E, skt, u.val), ret)

\* M.checkMessages, the loop body after message, err = M.receive(skt)
received(r, E, skt, ret) ==
    IF r.err # Nil THEN Ret(removeClient(r.st, E, skt), ret)
    ELSE dispatch(r, E, skt, ret, unpack(r.data))

\* M.checkMessages, the body of the loop over readable for the socket skt:
\* [st, ret] with ret the loop's ret after this socket.
checkSocket(S, E, skt, ret) ==
    IF ~IsWritable(S, skt) THEN Ret(S, ret) ELSE received(receive(S, skt), E, skt, ret)

RECURSIVE checkLoop(_, _, _, _, _)
checkLoop(S, E, readable, i, ret) ==
    LET next(r) == checkLoop(r.st, E, readable, i + 1, r.ret)
    IN  IF i > Len(readable) \/ S.raised THEN Ret(S, ret)
        ELSE next(checkSocket(S, E, readable[i], ret))

checkMessages(S, E) ==
    LET result(readable, r) == IF Len(readable) > 0 THEN r ELSE Ret(r.st, FALSE)
    IN  result(select(S, clientsOf(S, E)),
               checkLoop(S, E, select(S, clientsOf(S, E)), 1, TRUE))

\* while rcom.checkMessages(M, clients) do end.  A call that returns true
\* and has changed nothing is followed by calls that do the same for as
\* long as the sockets' readiness stays as it is: the loop of E spins
\* (sim.spinning), and goes on when the readiness has changed.
RECURSIVE drain(_, _)
drain(S, E) ==
    LET again(r) == IF r.ret /\ ~r.st.raised
                    THEN IF r.st = S THEN [S EXCEPT !.sim.spinning = @ \cup {E}]
                         ELSE drain(r.st, E)
                    ELSE r.st
    IN  again(checkMessages(S, E))

\* The call frameDelayFunc().
callFrameDelayFunc(S) ==
    IF S.ge.frameDelayFunc.fn = Nil THEN Raise(S)
    ELSE IF S.ge.frameDelayFunc.fn = "Camera" THEN cameraDelayed(S, S.ge.frameDelayFunc)
    ELSE relativeCamDelayed(S, S.ge.frameDelayFunc)

\* M.onPreRender from the label continue on: accept clients, read messages.
acceptAndRead(S, dt) ==
    LET accepted(c) ==
            LET ins[i \in 0..Len(c.ret)] ==
                    IF i = 0 THEN S.ge.clients ELSE insert(ins[i - 1], c.ret[i])
            IN  [c.st EXCEPT !.ge.conSleep = 1, !.ge.clients = ins[Len(c.ret)]]
    IN  IF ~S.ge.server THEN S
        ELSE drain(IF S.ge.conSleep <= 0 THEN accepted(checkForClients(S, "GE"))
                   ELSE [S EXCEPT !.ge.conSleep = @ - dt], "GE")

\* M.onPreRender at the label continue, if control reaches it (r.ret).
continue(r, dt) == IF r.ret THEN acceptAndRead(r.st, dt) ELSE r.st

\* Variant: a frame that goes on to accept and read while steps are left.
blockingCheckStepReads(S, dt) ==
    LET stepped == [S EXCEPT !.ge.stepsLeft = @ - 1]
    IN  continue(IF S.ge.blocking = Nil THEN Ret(S, TRUE)
                 ELSE IF S.ge.blocking = "returnMainMenu" /\ S.sim.gamestateEmpty
                 THEN Ret(stopBlocking(sendACK(S, S.ge.waiting, "ScenarioStopped")), TRUE)
                 ELSE IF S.ge.blocking = "step"
                 THEN IF stepped.ge.stepsLeft = 0
                      THEN Ret(stopBlocking(sendACK(stepped, stepped.ge.waiting, "Stepped")),
                               TRUE)
                      ELSE Ret(stepped, TRUE)
                 ELSE Ret(S, FALSE), dt)

\* M.onPreRender from the test of blocking on.
blockingCheck(S, dt) ==
    LET stepped == [S EXCEPT !.ge.stepsLeft = @ - 1]
    IN  continue(IF S.ge.blocking = Nil THEN Ret(S, TRUE)
                 ELSE IF S.ge.blocking = "returnMainMenu" /\ S.sim.gamestateEmpty
                 THEN Ret(stopBlocking(sendACK(S, S.ge.waiting, "ScenarioStopped")), TRUE)
                 ELSE IF S.ge.blocking = "step"
                 THEN IF stepped.ge.stepsLeft = 0
                      THEN Ret(stopBlocking(sendACK(stepped, stepped.ge.waiting, "Stepped")),
                               TRUE)
                      ELSE Ret(stepped, FALSE)
                 ELSE Ret(S, FALSE), dt)

\* M.onPreRender after the frame delay, if it does not return there (r.ret).
afterFrameDelay(r, dt) == IF r.ret THEN blockingCheck(r.st, dt) ELSE r.st

\* M.onPreRender; shutdown(0) ends the process.
onPreRender(S, dt) ==
    LET ticked == [S EXCEPT !.ge.frameDelayTimer = @ - 1]
        called(S2) ==
            IF S2.raised THEN Ret(S2, FALSE)
            ELSE Ret([S2 EXCEPT !.ge.frameDelayFunc = NoFunc,
                                !.ge.frameDelayTimer = 0], TRUE)
    IN  IF S.ge.quitRequested THEN [S EXCEPT !.ge.down = TRUE]
        ELSE afterFrameDelay(IF S.ge.frameDelayTimer > 0
                             THEN IF ticked.ge.frameDelayTimer = 0
                                  THEN called(callFrameDelayFunc(ticked))
                                  ELSE Ret(ticked, FALSE)
                             ELSE Ret(S, TRUE), dt)

onScenarioUIReady(S, state) ==
    IF state = "start" /\ S.ge.blocking = "loadScenario"
    THEN stopBlocking(sendACK(S, S.ge.waiting, "MapLoaded"))
    ELSE S

onCountdownEnded(S) ==
    IF S.ge.blocking = "startScenario"
    THEN stopBlocking(sendACK(S, S.ge.waiting, "ScenarioStarted"))
    ELSE S

onScenarioRestarted(S) ==
    IF S.ge.blocking = "restartScenario"
    THEN stopBlocking(sendACK(S, S.ge.waiting, "ScenarioRestarted"))
    ELSE S

onVehicleSpawned(S, vID) ==
    IF S.ge.blocking = "spawnVehicle" /\ S.ge.spawnPending # Nil
    THEN IF S.ge.spawnPending \in Vehicles /\ getID(S.ge.spawnPending) = vID
         THEN LET resp == [type |-> Str("VehicleSpawned"), name |-> Str(S.ge.spawnPending)]
              IN  stopBlocking(sendMessage([S EXCEPT !.ge.spawnPending = Nil],
                                           S.ge.waiting, resp))
         ELSE S
    ELSE S

\* Variant: a vehicle's loop that accepts but does not read while the game
\* engine is inside a blocking operation.
onDebugDrawUnlessBlocking(S, veh) ==
    LET accepted(c) ==
            LET ins[i \in 0..Len(c.ret)] ==
                    IF i = 0 THEN S.ve[veh].clients ELSE insert(ins[i - 1], c.ret[i])
            IN  [c.st EXCEPT !.ve[veh].conSleep = VEConSleep,
                             !.ve[veh].clients = ins[Len(c.ret)]]
    IN  IF S.ve[veh].server
        THEN IF S.ge.blocking = Nil
             THEN drain(IF S.ve[veh].conSleep <= 0 THEN accepted(checkForClients(S, veh))
                        ELSE [S EXCEPT !.ve[veh].conSleep = @ - 1], veh)
             ELSE IF S.ve[veh].conSleep <= 0 THEN accepted(checkForClients(S, veh))
                  ELSE [S EXCEPT !.ve[veh].conSleep = @ - 1]
        ELSE S

\* researchVE's M.onDebugDraw
onDebugDraw(S, veh) ==
    LET accepted(c) ==
            LET ins[i \in 0..Len(c.ret)] ==
                    IF i = 0 THEN S.ve[veh].clients ELSE insert(ins[i - 1], c.ret[i])
            IN  [c.st EXCEPT !.ve[veh].conSleep = VEConSleep,
                             !.ve[veh].clients = ins[Len(c.ret)]]
    IN  IF S.ve[veh].server
        THEN drain(IF S.ve[veh].conSleep <= 0 THEN accepted(checkForClients(S, veh))
                   ELSE [S EXCEPT !.ve[veh].conSleep = @ - 1], veh)
        ELSE S

\* setup(), called by M.onInit and M.startConnection
setup(S) ==
    IF ~S.ge.server THEN [S EXCEPT !.ge.server = TRUE, !.ge.clients = newSet] ELSE S

(***************************************************************************)
(* The client of the protocol (spec.md 4.1, 4.2, 6): it connects, sends    *)
(* Hello with its protocol version, and proceeds to requests only when the *)
(* reply carries the same version; otherwise it aborts the connection.     *)
(* It frames what it sends as sendMessage does.                            *)
(***************************************************************************)
MaxRequests == 2

Hello(v) == [type |-> Str("Hello"), protocolVersion |-> Str(v)]

\* The client writes a frame: slow, the bytes are in flight and arrive in
\* pieces (Deliver); otherwise they arrive at once.
clientWrite(c, message, slow) ==
    /\ ~slow => net.wire[c] = <<>>
    /\ net' = IF slow THEN [net EXCEPT !.wire[c] = @ \o Frame(message)]
              ELSE [net EXCEPT !.inbuf[c] = @ \o Frame(message)]
    /\ hist' = [hist EXCEPT !.csent[c] = Append(@, message)]

ServerOf(c) == IF c \in Clients THEN "GE" ELSE IF c = "V" THEN "car1" ELSE "car2"

ClientConnect(c, v, slow) ==
    /\ cli.state[c] = "closed"
    /\ IF c \in Clients THEN ge.server /\ ~ge.down ELSE ve[ServerOf(c)].server
    /\ \E n1 \in {[net EXCEPT !.backlog[ServerOf(c)] = Append(@, c)]} :
          /\ ~slow => n1.wire[c] = <<>>
          /\ net' = IF slow THEN [n1 EXCEPT !.wire[c] = @ \o Frame(Hello(v))]
                    ELSE [n1 EXCEPT !.inbuf[c] = @ \o Frame(Hello(v))]
    /\ hist' = [hist EXCEPT !.csent[c] = Append(@, Hello(v))]
    /\ cli' = [cli EXCEPT !.state[c] = "hello", !.version[c] = v]
    /\ UNCHANGED <<ge, ve, sim>>

\* The first frame of a byte stream, decoded as spec.md 4.1 decode does.
firstFrame(bytes) ==
    IF Len(bytes) < HeaderLen \/ tonumber(SubSeq(bytes, 1, HeaderLen)) = NotANumber
    THEN [ok |-> FALSE, msg |-> Hello(Nil), rest |-> bytes]
    ELSE LET n == tonumber(SubSeq(bytes, 1, HeaderLen)) IN
         IF Len(bytes) < HeaderLen + n THEN [ok |-> FALSE, msg |-> Hello(Nil), rest |-> bytes]
         ELSE [ok |-> TRUE, msg |-> unpack(SubSeq(bytes, HeaderLen + 1, HeaderLen + n)).val,
               rest |-> SubSeq(bytes, HeaderLen + n + 1, Len(bytes))]

ClientHandshake(c) ==
    LET same(f) == Field(f.msg, "type") = Str("Hello")
                   /\ Field(f.msg, "protocolVersion") = Str(cli.version[c])
        shake(f) ==
            /\ f.ok
            /\ cli' = [cli EXCEPT !.state[c] = IF same(f) THEN "open" ELSE "aborted"]
            /\ net' = [net EXCEPT !.out[c] = f.rest, !.peerClosed[c] = ~same(f)]
    IN  /\ cli.state[c] = "hello"
        /\ shake(firstFrame(net.out[c]))
        /\ UNCHANGED <<ge, ve, sim, hist>>

ClientRequest(c, message, slow) ==
    /\ cli.state[c] = "open"
    /\ cli.nsent < MaxRequests
    /\ clientWrite(c, message, slow)
    /\ cli' = [cli EXCEPT !.nsent = @ + 1]
    /\ UNCHANGED <<ge, ve, sim>>

\* A peer that does not frame as the protocol says: it writes a header that
\* is no decimal number, then body.
PeerSendRaw(c, header, body) ==
    /\ cli.state[c] = "open"
    /\ cli.nsent < MaxRequests
    /\ net' = [net EXCEPT !.wire[c] = @ \o header \o body]
    /\ hist' = [hist EXCEPT !.raw[c] = TRUE]
    /\ cli' = [cli EXCEPT !.nsent = @ + 1]
    /\ UNCHANGED <<ge, ve, sim>>

\* The client closes its connection; what it wrote before stays readable.
ClientClose(c) ==
    /\ cli.state[c] = "open"
    /\ net.wire[c] = <<>>
    /\ cli' = [cli EXCEPT !.state[c] = "aborted"]
    /\ net' = [net EXCEPT !.peerClosed[c] = TRUE]
    /\ UNCHANGED <<ge, ve, sim, hist>>

\* k more bytes of what the client wrote arrive at the server.
Deliver(c, k) ==
    /\ k >= 1 /\ k <= Len(net.wire[c])
    /\ net' = [net EXCEPT !.inbuf[c] = @ \o SubSeq(net.wire[c], 1, k),
                          !.wire[c] = SubSeq(@, k + 1, Len(@))]
    /\ UNCHANGED <<ge, ve, sim, cli, hist>>

(***************************************************************************)
(* The callbacks the engine invokes.                                       *)
(***************************************************************************)
Apply(R) == /\ net' = R.net /\ ge' = R.ge /\ ve' = R.ve /\ sim' = R.sim
            /\ hist' = R.hist
            /\ UNCHANGED cli

StartConnection == ~ge.server /\ Apply(setup(State))

\* One rendered frame; dt is the time since the last one, in units of conSleep.
PreRender(dt) == ~ge.down /\ "GE" \notin sim.spinning /\ Apply(onPreRender(State, dt))

\* The loop of E, which has been spinning, makes its next call of
\* checkMessages after the readiness of a socket has changed.
Spin(E) ==
    /\ E \in sim.spinning
    /\ \E s \in Sockets : IsReadable(State, s) /\ IsWritable(State, s)
    /\ Apply(drain([State EXCEPT !.sim.spinning = @ \ {E}], E))

\* The peer c stops reading what the server sends, until the server's send
\* buffer for it is full, and reads again.
ClientStall(c) ==
    /\ cli.state[c] = "open" /\ ~net.full[c]
    /\ net' = [net EXCEPT !.full[c] = TRUE]
    /\ UNCHANGED <<ge, ve, sim, cli, hist>>

ClientResume(c) ==
    /\ net.full[c]
    /\ net' = [net EXCEPT !.full[c] = FALSE]
    /\ UNCHANGED <<ge, ve, sim, cli, hist>>

ScenarioUIReady(state) == Apply(onScenarioUIReady(State, state))

CountdownEnded == Apply(onCountdownEnded(State))

ScenarioRestarted == Apply(onScenarioRestarted(State))

\* The engine has spawned the vehicle name and announces it.
VehicleSpawned(name) == Apply(onVehicleSpawned(State, getID(name)))

\* The engine spawns the vehicle name, which did not exist, and announces it.
Spawn(name) ==
    /\ name \notin sim.objects
    /\ Apply(onVehicleSpawned([State EXCEPT !.sim.objects = @ \cup {name}], getID(name)))

\* The vehicle's Lua state runs the next command queued for it.
VehicleLua ==
    /\ sim.vehLua # <<>>
    /\ LET c == Head(sim.vehLua)
           S == [State EXCEPT !.sim.vehLua = Tail(@)]
       IN  IF c.cmd = "extensions.load"
           THEN Apply(IF S.ve[c.veh].loaded THEN S
                      ELSE [S EXCEPT !.ve[c.veh] = VELocals @@ [loaded |-> TRUE]])
           ELSE IF c.cmd = "researchVE.requestVehicleInfo"
           THEN Apply(IF S.ve[c.veh].loaded THEN VE_requestVehicleInfo(S, c.veh)
                      ELSE Raise(S))
           ELSE \E p \in Ports :
                   /\ \A o \in Vehicles \ {c.veh} : S.ve[o].server => S.ve[o].port # p
                   /\ Apply(VE_startConnection(S, c.veh, p))

\* The game engine's Lua state runs the next command queued for it.
GameEngineLua ==
    /\ sim.geLua # <<>>
    /\ LET c == Head(sim.geLua)
           S == [State EXCEPT !.sim.geLua = Tail(@)]
       IN  IF c.hook = "onVehicleInfoReady"
           THEN Apply(onVehicleInfoReady(S, c.vehicleID, [port |-> c.port]))
           ELSE Apply(onVehicleConnectionReady(S, c.vehicleID, c.port))

\* One debug-draw callback of the vehicle veh.
DebugDraw(veh) ==
    ve[veh].loaded /\ veh \notin sim.spinning /\ Apply(onDebugDraw(State, veh))

\* The engine loads the extension scenario_scenarios with the scenario of
\* the path, or unloads it (path = Nil).
SetScenario(path) ==
    /\ sim.scenario # path
    /\ sim' = [sim EXCEPT !.scenario = path]
    /\ UNCHANGED <<net, ge, ve, cli, hist>>

\* The simulator was opened with the extension among those to load.
LoadExtension(name) ==
    /\ name \notin sim.extensions
    /\ sim' = [sim EXCEPT !.extensions = @ \cup {name}]
    /\ UNCHANGED <<net, ge, ve, cli, hist>>

\* M.handleCloseShmem called for a connection that is gone: the socket it
\* is given is nil.
CloseShmemRequest(name) == [type |-> Str("CloseShmem"), name |-> Str(name)]
CloseShmemNoSocket(name) ==
    /\ ge.server
    /\ name \in sim.shmem
    /\ Apply(handleCloseShmem(State, Nil, CloseShmemRequest(name)).st)

\* A lidar has written its data and calls the callback it was given.
LidarDataReady ==
    /\ sim.lidarPending # <<>>
    /\ Apply(lidarReady([State EXCEPT !.sim.lidarPending = Tail(@),
                                      !.hist.written =
                                          IF Head(sim.lidarPending).shmem
                                          THEN @ + 1 ELSE @],
                        Head(sim.lidarPending)))

\* core_gamestate.state is cleared or set by the engine.
SetGameState(empty) ==
    /\ sim.gamestateEmpty # empty
    /\ sim' = [sim EXCEPT !.gamestateEmpty = empty]
    /\ UNCHANGED <<net, ge, ve, cli, hist>>

NoHistory == [sent |-> [s \in Sockets |-> <<>>],
              rx |-> [s \in Sockets |-> <<>>],
              csent |-> [s \in Sockets |-> <<>>],
              raw |-> [s \in Sockets |-> FALSE],
              calls |-> [s \in Sockets |-> <<>>],
              log |-> [s \in Sockets |-> <<>>],
              written |-> 0,
              lastHook |-> [hook |-> Nil, blocking |-> Nil]]

Init ==
    /\ net = [backlog |-> [srv \in {"GE"} \cup Vehicles |-> <<>>],
              wire |-> [s \in Sockets |-> <<>>],
              inbuf |-> [s \in Sockets |-> <<>>],
              out |-> [s \in Sockets |-> <<>>],
              peerClosed |-> [s \in Sockets |-> FALSE],
              full |-> [s \in Sockets |-> FALSE]]
    /\ ge = [quitRequested |-> FALSE, down |-> FALSE, conSleep |-> 1, stepsLeft |-> 0,
             blocking |-> Nil, waiting |-> Nil, spawnPending |-> Nil,
             vehicleInfoPending |-> 0, vehicleInfo |-> Str(Nil),
             frameDelayTimer |-> -1, frameDelayFunc |-> NoFunc,
             dynamicSphereNum |-> 0,
             server |-> FALSE, clients |-> newSet]
    /\ ve = [v \in Vehicles |-> VELocals @@ [loaded |-> FALSE]]
    /\ sim = [gamestateEmpty |-> FALSE, vehLua |-> <<>>, geLua |-> <<>>, scenario |-> Nil, objects |-> Vehicles,
              extensions |-> {}, shmem |-> {}, lidars |-> {}, lidarPending |-> <<>>,
              spinning |-> {}]
    /\ cli = [state |-> [c \in Sockets |-> "closed"],
              version |-> [c \in Sockets |-> protocolVersion],
              nsent |-> 0]
    /\ hist = NoHistory

(***************************************************************************)
(* Spec: the life of the server from its construction on, with clients     *)
(* that connect and shake hands.                                           *)
(***************************************************************************)
Versions == {protocolVersion, "v1.18"}

Requests ==
    {[type |-> Str("Pause")],
     [type |-> Str("GetLevels")],
     [type |-> Str("StartScenario")]}

Next ==
    \/ StartConnection
    \/ \E dt \in {0, 1} : PreRender(dt)
    \/ CountdownEnded
    \/ \E c \in Clients, v \in Versions : ClientConnect(c, v, FALSE)
    \/ \E c \in Clients : ClientHandshake(c)
    \/ \E c \in Clients, m \in Requests : ClientRequest(c, m, FALSE)

Spec == Init /\ [][Next]_vars

(***************************************************************************)
(* SpecBlocking: two connected clients that have shaken hands send         *)
(* requests, among them the blocking commands; the engine reports its      *)
(* events at any time.                                                     *)
(***************************************************************************)
InitBlocking ==
    /\ net = [backlog |-> [srv \in {"GE"} \cup Vehicles |-> <<>>],
              wire |-> [s \in Sockets |-> <<>>],
              inbuf |-> [s \in Sockets |-> <<>>],
              out |-> [s \in Sockets |-> <<>>],
              peerClosed |-> [s \in Sockets |-> FALSE],
              full |-> [s \in Sockets |-> FALSE]]
    /\ ge = [quitRequested |-> FALSE, down |-> FALSE, conSleep |-> 1, stepsLeft |-> 0,
             blocking |-> Nil, waiting |-> Nil, spawnPending |-> Nil,
             vehicleInfoPending |-> 0, vehicleInfo |-> Str(Nil),
             frameDelayTimer |-> -1, frameDelayFunc |-> NoFunc,
             dynamicSphereNum |-> 0,
             server |-> TRUE, clients |-> insert(insert(newSet, "A"), "B")]
    /\ ve = [v \in Vehicles |-> VELocals @@ [loaded |-> FALSE]]
    /\ sim = [gamestateEmpty |-> FALSE, vehLua |-> <<>>, geLua |-> <<>>, scenario |-> Nil, objects |-> Vehicles,
              extensions |-> {}, shmem |-> {}, lidars |-> {}, lidarPending |-> <<>>,
              spinning |-> {}]
    /\ cli = [state |-> [c \in Sockets |-> IF c \in Clients THEN "open" ELSE "closed"],
              version |-> [c \in Sockets |-> protocolVersion],
              nsent |-> 0]
    /\ hist = NoHistory

BlockingRequests ==
    {[type |-> Str("LoadScenario"), path |-> Str("/ok.json")],
     [type |-> Str("LoadScenario"), path |-> Str("/no.json")],
     [type |-> Str("StartScenario")],
     [type |-> Str("RestartScenario")],
     [type |-> Str("StopScenario")],
     [type |-> Str("Step"), count |-> Num(1)],
     [type |-> Str("Step"), count |-> Num(2)],
     [type |-> Str("HideHUD")],
     [type |-> Str("WaitForSpawn"), name |-> Str("car1")]}

NextBlocking ==
    \/ \E dt \in {0, 1} : PreRender(dt)
    \/ \E state \in {"start", "intro"} : ScenarioUIReady(state)
    \/ CountdownEnded
    \/ ScenarioRestarted
    \/ \E name \in Vehicles : VehicleSpawned(name)
    \/ \E empty \in BOOLEAN : SetGameState(empty)
    \/ \E c \in Clients, m \in BlockingRequests : ClientRequest(c, m, FALSE)

SpecBlocking == InitBlocking /\ [][NextBlocking]_vars

(***************************************************************************)
(* SpecFrame: one connected client whose frames arrive in pieces, and      *)
(* which may also write bytes that are no frame.                           *)
(***************************************************************************)
InitFrame ==
    /\ net = [backlog |-> [srv \in {"GE"} \cup Vehicles |-> <<>>],
              wire |-> [s \in Sockets |-> <<>>],
              inbuf |-> [s \in Sockets |-> <<>>],
              out |-> [s \in Sockets |-> <<>>],
              peerClosed |-> [s \in Sockets |-> FALSE],
              full |-> [s \in Sockets |-> FALSE]]
    /\ ge = [quitRequested |-> FALSE, down |-> FALSE, conSleep |-> 1, stepsLeft |-> 0,
             blocking |-> Nil, waiting |-> Nil, spawnPending |-> Nil,
             vehicleInfoPending |-> 0, vehicleInfo |-> Str(Nil),
             frameDelayTimer |-> -1, frameDelayFunc |-> NoFunc,
             dynamicSphereNum |-> 0,
             server |-> TRUE, clients |-> insert(newSet, "A")]
    /\ ve = [v \in Vehicles |-> VELocals @@ [loaded |-> FALSE]]
    /\ sim = [gamestateEmpty |-> FALSE, vehLua |-> <<>>, geLua |-> <<>>, scenario |-> Nil, objects |-> Vehicles,
              extensions |-> {}, shmem |-> {}, lidars |-> {}, lidarPending |-> <<>>,
              spinning |-> {}]
    /\ cli = [state |-> [c \in Sockets |-> IF c = "A" THEN "open" ELSE "closed"],
              version |-> [c \in Sockets |-> protocolVersion],
              nsent |-> 0]
    /\ hist = NoHistory

FrameRequests ==
    {[type |-> Str("Pause")],
     Hello(protocolVersion)}

\* The sizes of the pieces: a byte, a header's worth, all that is in flight.
ChunkSizes == {1, HeaderLen, Len(net.wire["A"])}

\* Headers that are no number: no digit at all, and one letter among digits.
BadHeaders == {[i \in 1..HeaderLen |-> 71],
               [i \in 1..HeaderLen |-> IF i = HeaderLen THEN 71 ELSE 48]}

\* What follows a bad header: nothing, or a packed message and a line feed.
RawBodies == {<<>>, pack([type |-> Str("Pause")]) \o <<LF>>}

\* No client connects here, so the frames are taken to be short ones, which
\* leave the countdown to the next accept alone.
NextFrame ==
    \/ PreRender(0)
    \/ \E m \in FrameRequests : ClientRequest("A", m, TRUE)
    \/ \E h \in BadHeaders, b \in RawBodies : PeerSendRaw("A", h, b)
    \/ \E k \in ChunkSizes : Deliver("A", k)

SpecFrame == InitFrame /\ [][NextFrame]_vars

(***************************************************************************)
(* SpecHello: the handshakes on the port of the game engine and on the     *)
(* port of a vehicle, which the game engine opens on request.              *)
(***************************************************************************)
HelloRequests ==
    {[type |-> Str("StartVehicleConnection"), vid |-> Str(EgoVehicle)],
     Hello(protocolVersion)}

NextHello ==
    \/ StartConnection
    \/ \E dt \in {0, 1} : PreRender(dt)
    \/ VehicleLua
    \/ GameEngineLua
    \/ DebugDraw(EgoVehicle)
    \/ \E v \in Versions : ClientConnect("A", v, FALSE)
    \/ \E v \in Versions : ClientConnect("V", v, FALSE)
    \/ \E c \in {"A", "V"} : ClientHandshake(c)
    \/ \E m \in HelloRequests : ClientRequest("A", m, FALSE)
    \/ ClientRequest("V", Hello(protocolVersion), FALSE)

SpecHello == Init /\ [][NextHello]_vars

(***************************************************************************)
(* SpecClose: two connected clients that have shaken hands send requests   *)
(* and close their connections.                                            *)
(***************************************************************************)
CloseRequests ==
    {[type |-> Str("Pause")],
     Hello(protocolVersion)}

NextClose ==
    \/ PreRender(1)
    \/ \E c \in Clients, m \in CloseRequests : ClientRequest(c, m, FALSE)
    \/ \E c \in Clients : ClientClose(c)

SpecClose == InitBlocking /\ [][NextClose]_vars

(***************************************************************************)
(* SpecConnections: two connected clients of the game engine ask for the   *)
(* connections of vehicles.                                                *)
(***************************************************************************)
VehicleRequests ==
    {[type |-> Str("StartVehicleConnection"), vid |-> Str(v)] : v \in Vehicles}

NextConnections ==
    \/ PreRender(1)
    \/ VehicleLua
    \/ GameEngineLua
    \/ \E c \in Clients, m \in VehicleRequests : ClientRequest(c, m, FALSE)

SpecConnections == InitBlocking /\ [][NextConnections]_vars

(***************************************************************************)
(* SpecErrors: one connected client sends requests the server rejects,     *)
(* requests it serves, and messages it has no handler for.                 *)
(***************************************************************************)
ErrorRequests ==
    {[type |-> Str("LoadScenario"), path |-> Str("/no.json")],
     [type |-> Str("LoadScenario"), path |-> Str("/ok.json")],
     [type |-> Str("GetObject"), id |-> Num(9)],
     [type |-> Str("GetObject"), id |-> Num(getID(EgoVehicle))],
     [type |-> Str("CreateScenario"), level |-> Str("west"), info |-> Str("{}")],
     [type |-> Str("CreateScenario"), name |-> Str("demo"), info |-> Str("{}")],
     [type |-> Str("CreateScenario"), name |-> Str("demo"), level |-> Str("west")],
     [type |-> Str("CreateScenario"), name |-> Str("demo"), level |-> Str("west"),
      info |-> Str("{}")],
     [type |-> Str("GetCurrentScenario")],
     [type |-> Str("StartVehicleConnection"), vid |-> Str("car9")],
     [type |-> Str("StartUSSensorVisualization"), vehicle |-> Str(EgoVehicle),
      pos |-> Arr(<<0, 0, 1>>), rot |-> Arr(<<0, 0, 0>>), color |-> Arr(<<1, 0, 0, 1>>),
      radius |-> Num(1)],
     [type |-> Str("Pause")],
     [type |-> Str("Bogus")],
     [vid |-> Str(EgoVehicle)]}

NextErrors ==
    \/ PreRender(1)
    \/ ScenarioUIReady("start")
    \/ \E path \in ScenarioPaths \cup {Nil} : SetScenario(path)
    \/ \E m \in ErrorRequests : ClientRequest("A", m, FALSE)

SpecErrors == InitFrame /\ [][NextErrors]_vars

(***************************************************************************)
(* SpecMods: a client sends messages of types the game engine has a        *)
(* handler for, of types only the example mod's extension has a handler    *)
(* for, of types nobody has a handler for and without a type, with the     *)
(* extension loaded or not.                                                *)
(***************************************************************************)
ModRequests ==
    {[type |-> Str("Pause")],
     [type |-> Str("Foo"), someName |-> Str("Bob")],
     [type |-> Str("Foo")],
     [type |-> Str("Bogus")],
     [someName |-> Str("Bob")]}

NextMods ==
    \/ PreRender(1)
    \/ LoadExtension("gameEngineCode")
    \/ \E m \in ModRequests : ClientRequest("A", m, FALSE)

SpecMods == InitFrame /\ [][NextMods]_vars

(***************************************************************************)
(* SpecShmem: a client opens and closes shared-memory regions, in any      *)
(* order, and a region is closed for a connection that is gone.            *)
(***************************************************************************)
ShmemNames == {"shm1", "shm2"}

ShmemRequests ==
    {[type |-> Str("OpenShmem"), name |-> Str(n), size |-> Num(64)] : n \in ShmemNames}
    \cup {CloseShmemRequest(n) : n \in ShmemNames}

NextShmem ==
    \/ PreRender(1)
    \/ \E m \in ShmemRequests : ClientRequest("A", m, FALSE)
    \/ \E n \in ShmemNames : CloseShmemNoSocket(n)

SpecShmem == InitFrame /\ [][NextShmem]_vars

(***************************************************************************)
(* SpecSensors: a client polls sensors: cameras with and without instance  *)
(* annotation, a lidar that is open and writes to shared memory, a lidar   *)
(* that is not open, a sensor type without a handler.  The lidar lidar1    *)
(* has been opened.                                                        *)
(***************************************************************************)
InitSensors ==
    /\ net = [backlog |-> [srv \in {"GE"} \cup Vehicles |-> <<>>],
              wire |-> [s \in Sockets |-> <<>>],
              inbuf |-> [s \in Sockets |-> <<>>],
              out |-> [s \in Sockets |-> <<>>],
              peerClosed |-> [s \in Sockets |-> FALSE],
              full |-> [s \in Sockets |-> FALSE]]
    /\ ge = [quitRequested |-> FALSE, down |-> FALSE, conSleep |-> 1, stepsLeft |-> 0,
             blocking |-> Nil, waiting |-> Nil, spawnPending |-> Nil,
             vehicleInfoPending |-> 0, vehicleInfo |-> Str(Nil),
             frameDelayTimer |-> -1, frameDelayFunc |-> NoFunc,
             dynamicSphereNum |-> 0,
             server |-> TRUE, clients |-> insert(newSet, "A")]
    /\ ve = [v \in Vehicles |-> VELocals @@ [loaded |-> FALSE]]
    /\ sim = [gamestateEmpty |-> FALSE, vehLua |-> <<>>, geLua |-> <<>>, scenario |-> Nil, objects |-> Vehicles,
              extensions |-> {}, shmem |-> {}, lidars |-> {"lidar1"}, lidarPending |-> <<>>,
              spinning |-> {}]
    /\ cli = [state |-> [c \in Sockets |-> IF c = "A" THEN "open" ELSE "closed"],
              version |-> [c \in Sockets |-> protocolVersion],
              nsent |-> 0]
    /\ hist = NoHistory

CameraRequest ==
    [type |-> Str("Camera"), pos |-> Arr(<<0, 0, 1>>), direction |-> Arr(<<0, 1, 0>>),
     fov |-> Num(60), resolution |-> Arr(<<8, 8>>), near_far |-> Arr(<<1, 100>>)]
InstanceCameraRequest == with(with(CameraRequest, "instance", Str("shm2")), "shmem", Num(1))
LidarRequest(name) == [type |-> Str("Lidar"), name |-> Str(name), shmem |-> Num(1)]
SensorRequest(sensors) == [type |-> Str("SensorRequest"), sensors |-> Tbl(sensors)]

SensorRequests ==
    {SensorRequest([cam1 |-> Tbl(CameraRequest)]),
     SensorRequest([cam1 |-> Tbl(InstanceCameraRequest), lidar1 |-> Tbl(LidarRequest("lidar1"))]),
     SensorRequest([cam1 |-> Tbl(InstanceCameraRequest), cam2 |-> Tbl(InstanceCameraRequest)]),
     SensorRequest([lidar1 |-> Tbl(LidarRequest("lidar1")),
                    other1 |-> Tbl([type |-> Str("Radar")])]),
     SensorRequest([lidar9 |-> Tbl(LidarRequest("lidar9"))])}

NextSensors ==
    \/ PreRender(1)
    \/ LidarDataReady
    \/ \E m \in SensorRequests : ClientRequest("A", m, FALSE)

SpecSensors == InitSensors /\ [][NextSensors]_vars

(***************************************************************************)
(* SpecDelay: two connected clients ask for steps and for the relative     *)
(* camera, whose acknowledgement is a delayed action, and pause.           *)
(***************************************************************************)
DelayRequests ==
    {[type |-> Str("Step"), count |-> Num(1)],
     [type |-> Str("Step"), count |-> Num(2)],
     [type |-> Str("SetRelativeCam"), pos |-> Arr(<<0, 0, 1>>)],
     [type |-> Str("Pause")]}

NextDelay ==
    \/ PreRender(1)
    \/ \E c \in Clients, m \in DelayRequests : ClientRequest(c, m, FALSE)

SpecDelay == InitBlocking /\ [][NextDelay]_vars

(***************************************************************************)
(* SpecLive: one client sends the blocking requests whose end the server   *)
(* itself brings about, in a world with one vehicle or with none; frames   *)
(* and the Lua states of the vehicle and of the engine are scheduled       *)
(* fairly.  A frame is not taken once stepsLeft is MaxBelowZero below zero.  *)
(***************************************************************************)
MaxBelowZero == 2

InitLive ==
    /\ net = [backlog |-> [srv \in {"GE"} \cup Vehicles |-> <<>>],
              wire |-> [s \in Sockets |-> <<>>],
              inbuf |-> [s \in Sockets |-> <<>>],
              out |-> [s \in Sockets |-> <<>>],
              peerClosed |-> [s \in Sockets |-> FALSE],
              full |-> [s \in Sockets |-> FALSE]]
    /\ ge = [quitRequested |-> FALSE, down |-> FALSE, conSleep |-> 1, stepsLeft |-> 0,
             blocking |-> Nil, waiting |-> Nil, spawnPending |-> Nil,
             vehicleInfoPending |-> 0, vehicleInfo |-> Str(Nil),
             frameDelayTimer |-> -1, frameDelayFunc |-> NoFunc,
             dynamicSphereNum |-> 0,
             server |-> TRUE, clients |-> insert(newSet, "A")]
    /\ ve = [v \in Vehicles |-> VELocals @@ [loaded |-> FALSE]]
    /\ \E objs \in {{}, {EgoVehicle}} :
          sim = [gamestateEmpty |-> FALSE, vehLua |-> <<>>, geLua |-> <<>>,
                 scenario |-> Nil, objects |-> objs,
                 extensions |-> {}, shmem |-> {}, lidars |-> {}, lidarPending |-> <<>>,
              spinning |-> {}]
    /\ cli = [state |-> [c \in Sockets |-> IF c = "A" THEN "open" ELSE "closed"],
              version |-> [c \in Sockets |-> protocolVersion],
              nsent |-> 0]
    /\ hist = NoHistory

LiveRequests ==
    {[type |-> Str("Step"), count |-> Num(0)],
     [type |-> Str("Step"), count |-> Num(1)],
     [type |-> Str("GetCurrentVehicles")],
     [type |-> Str("Quit")],
     [type |-> Str("Pause")]}

RenderFrame == ge.stepsLeft > -MaxBelowZero /\ PreRender(1)

NextLive ==
    \/ RenderFrame
    \/ VehicleLua
    \/ GameEngineLua
    \/ \E m \in LiveRequests : ClientRequest("A", m, FALSE)

\* Whether a step of R's state differs from the current one.
Changes(R) == <<R.net, R.ge, R.ve, R.sim, R.hist>> # <<net, ge, ve, sim, hist>>

\* ENABLED <<RenderFrame>>_vars, written out: the frame is deterministic, so
\* it can change the state iff its one result differs from the state.
RenderFrameEnabled ==
    ge.stepsLeft > -MaxBelowZero /\ ~ge.down /\ Changes(onPreRender(State, 1))

\* Weak fairness of the frame, with its enabling condition written out, and
\* of the two Lua states' queues.
SpecLive ==
    /\ InitLive /\ [][NextLive]_vars
    /\ ([]<>~RenderFrameEnabled \/ []<><<RenderFrame>>_vars)
    /\ WF_vars(VehicleLua) /\ WF_vars(GameEngineLua)

(***************************************************************************)
(* SpecDrain: two connected clients send requests and may stop reading the *)
(* server's replies, which leaves their socket readable and not writable.  *)
(***************************************************************************)
DrainRequests ==
    {[type |-> Str("Pause")],
     [type |-> Str("Step"), count |-> Num(1)],
     [type |-> Str("Bogus")],
     [name |-> Str("car1")]}

NextDrain ==
    \/ PreRender(1)
    \/ Spin("GE")
    \/ \E c \in Clients : ClientStall(c)
    \/ \E c \in Clients : ClientResume(c)
    \/ \E c \in Clients, m \in DrainRequests : ClientRequest(c, m, FALSE)

SpecDrain == InitBlocking /\ [][NextDrain]_vars

(***************************************************************************)
(* SpecBlocked: one connected client sends blocking requests and others,   *)
(* a second client connects, and the engine reports its events, while      *)
(* frames of either length run.                                            *)
(***************************************************************************)
BlockedRequests ==
    {[type |-> Str("StartScenario")],
     [type |-> Str("StopScenario")],
     [type |-> Str("Step"), count |-> Num(2)],
     [type |-> Str("SetRelativeCam"), pos |-> Arr(<<0, 0, 1>>)],
     [type |-> Str("Pause")]}

NextBlocked ==
    \/ \E dt \in {0, 1} : PreRender(dt)
    \/ CountdownEnded
    \/ \E empty \in BOOLEAN : SetGameState(empty)
    \/ ClientConnect("B", protocolVersion, FALSE)
    \/ ClientHandshake("B")
    \/ \E c \in Clients, m \in BlockedRequests : ClientRequest(c, m, FALSE)

SpecBlocked == InitLive /\ [][NextBlocked]_vars

(***************************************************************************)
(* SpecHooks: one client sends the requests that block until a hook of the *)
(* engine is called, and the engine calls each hook at any time, whatever  *)
(* the server waits for.  hist.lastHook keeps the hook called last and the *)
(* value blocking had then.                                                *)
(***************************************************************************)
OwnReason ==
    [onScenarioUIReady |-> "loadScenario", onCountdownEnded |-> "startScenario",
     onScenarioRestarted |-> "restartScenario", onVehicleSpawned |-> "spawnVehicle",
     onVehicleConnectionReady |-> "vehicleConnection",
     onVehicleInfoReady |-> "vehicleInfo"]

\* The port the vehicle of the hooks' calls reports.
HookPort == CHOOSE p \in Ports : \A q \in Ports : p <= q

\* extensions.hook(h, ...) has run the hook h of researchGE and left R.
Fired(R, h) ==
    Apply([R EXCEPT !.hist.lastHook = [hook |-> h, blocking |-> ge.blocking]])

HookFires(h) ==
    CASE h = "onScenarioUIReady" ->
            Fired(onScenarioUIReady(State, "start"), h)
      [] h = "onCountdownEnded" -> Fired(onCountdownEnded(State), h)
      [] h = "onScenarioRestarted" -> Fired(onScenarioRestarted(State), h)
      [] h = "onVehicleSpawned" ->
            Fired(onVehicleSpawned(State, getID(EgoVehicle)), h)
      [] h = "onVehicleConnectionReady" ->
            Fired(onVehicleConnectionReady(State, getID(EgoVehicle), HookPort), h)
      [] h = "onVehicleInfoReady" ->
            Fired(onVehicleInfoReady(State, getID(EgoVehicle), [port |-> HookPort]), h)

HookRequests ==
    {[type |-> Str("LoadScenario"), path |-> Str("/ok.json")],
     [type |-> Str("StartScenario")],
     [type |-> Str("WaitForSpawn"), name |-> Str("car1")],
     [type |-> Str("GetCurrentVehicles")]}

NextHooks ==
    \/ PreRender(1)
    \/ \E h \in DOMAIN OwnReason : HookFires(h)
    \/ \E m \in HookRequests : ClientRequest("A", m, FALSE)

SpecHooks == InitLive /\ [][NextHooks]_vars

(***************************************************************************)
(* SpecInfo: one client asks for the current vehicles, in a world with one *)
(* vehicle or with none, and sends other requests; the Lua states of the   *)
(* vehicle and of the engine run what is queued for them.                  *)
(***************************************************************************)
InfoRequests ==
    {[type |-> Str("GetCurrentVehicles")],
     [type |-> Str("WaitForSpawn"), name |-> Str("car1")],
     [type |-> Str("Pause")]}

NextInfo ==
    \/ PreRender(1)
    \/ VehicleLua
    \/ GameEngineLua
    \/ \E m \in InfoRequests : ClientRequest("A", m, FALSE)

SpecInfo == InitLive /\ [][NextInfo]_vars

(***************************************************************************)
(* SpecSpawn: two connected clients ask for vehicles to be spawned or wait *)
(* for their spawn, in a world without vehicles, and the engine spawns     *)
(* each vehicle at some time.  A client sends a request when every request *)
(* it has sent has been answered.                                          *)
(***************************************************************************)
InitSpawn ==
    /\ net = [backlog |-> [srv \in {"GE"} \cup Vehicles |-> <<>>],
              wire |-> [s \in Sockets |-> <<>>],
              inbuf |-> [s \in Sockets |-> <<>>],
              out |-> [s \in Sockets |-> <<>>],
              peerClosed |-> [s \in Sockets |-> FALSE],
              full |-> [s \in Sockets |-> FALSE]]
    /\ ge = [quitRequested |-> FALSE, down |-> FALSE, conSleep |-> 1, stepsLeft |-> 0,
             blocking |-> Nil, waiting |-> Nil, spawnPending |-> Nil,
             vehicleInfoPending |-> 0, vehicleInfo |-> Str(Nil),
             frameDelayTimer |-> -1, frameDelayFunc |-> NoFunc,
             dynamicSphereNum |-> 0,
             server |-> TRUE, clients |-> insert(insert(newSet, "A"), "B")]
    /\ ve = [v \in Vehicles |-> VELocals @@ [loaded |-> FALSE]]
    /\ sim = [gamestateEmpty |-> FALSE, vehLua |-> <<>>, geLua |-> <<>>,
              scenario |-> Nil, objects |-> {},
              extensions |-> {}, shmem |-> {}, lidars |-> {}, lidarPending |-> <<>>,
              spinning |-> {}]
    /\ cli = [state |-> [c \in Sockets |-> IF c \in Clients THEN "open" ELSE "closed"],
              version |-> [c \in Sockets |-> protocolVersion],
              nsent |-> 0]
    /\ hist = NoHistory

SpawnRequests ==
    {[type |-> Str("WaitForSpawn"), name |-> Str("car1")],
     [type |-> Str("WaitForSpawn"), name |-> Str("car2")],
     [type |-> Str("SpawnVehicle"), name |-> Str("car1"), model |-> Str(JBeamFilename),
      pos |-> Arr(<<0, 0, 1>>), rot |-> Arr(<<0, 0, 0, 1>>)],
     [type |-> Str("SpawnVehicle"), name |-> Str("car2"), model |-> Str(JBeamFilename)]}

NextSpawn ==
    \/ PreRender(1)
    \/ \E name \in Vehicles : Spawn(name)
    \/ \E c \in Clients, m \in SpawnRequests :
          Len(hist.csent[c]) = Len(hist.sent[c]) /\ ClientRequest(c, m, FALSE)

SpecSpawn == InitSpawn /\ [][NextSpawn]_vars

(***************************************************************************)
(* SpecSet: insert and remove calls, in any order, on the sets made by     *)
(* newSet for the game engine's clients and for a vehicle's clients.       *)
(* hist.held and hist.gone keep, for each set, the values inserted and not *)
(* removed since, and the values removed and not inserted since.           *)
(***************************************************************************)
SetOwners == {"GE", EgoVehicle}

SetOf(E) == IF E = "GE" THEN ge.clients ELSE ve[E].clients

InitSet ==
    /\ net = [backlog |-> [srv \in {"GE"} \cup Vehicles |-> <<>>],
              wire |-> [s \in Sockets |-> <<>>],
              inbuf |-> [s \in Sockets |-> <<>>],
              out |-> [s \in Sockets |-> <<>>],
              peerClosed |-> [s \in Sockets |-> FALSE],
              full |-> [s \in Sockets |-> FALSE]]
    /\ ge = [quitRequested |-> FALSE, down |-> FALSE, conSleep |-> 1, stepsLeft |-> 0,
             blocking |-> Nil, waiting |-> Nil, spawnPending |-> Nil,
             vehicleInfoPending |-> 0, vehicleInfo |-> Str(Nil),
             frameDelayTimer |-> -1, frameDelayFunc |-> NoFunc,
             dynamicSphereNum |-> 0,
             server |-> TRUE, clients |-> newSet]
    /\ ve = [v \in Vehicles |-> VELocals @@ [loaded |-> v = EgoVehicle]]
    /\ sim = [gamestateEmpty |-> FALSE, vehLua |-> <<>>, geLua |-> <<>>,
              scenario |-> Nil, objects |-> Vehicles,
              extensions |-> {}, shmem |-> {}, lidars |-> {}, lidarPending |-> <<>>,
              spinning |-> {}]
    /\ cli = [state |-> [c \in Sockets |-> "closed"],
              version |-> [c \in Sockets |-> protocolVersion],
              nsent |-> 0]
    /\ hist = [held |-> [E \in SetOwners |-> {}], gone |-> [E \in SetOwners |-> {}]]
              @@ NoHistory

\* set:insert(value)
SetInsert(E, value) ==
    /\ ge' = IF E = "GE" THEN [ge EXCEPT !.clients = insert(@, value)] ELSE ge
    /\ ve' = IF E = "GE" THEN ve ELSE [ve EXCEPT ![E].clients = insert(@, value)]
    /\ hist' = [hist EXCEPT !.held[E] = @ \cup {value}, !.gone[E] = @ \ {value}]
    /\ UNCHANGED <<net, sim, cli>>

\* set:remove(value)
SetRemove(E, value) ==
    /\ ge' = IF E = "GE" THEN [ge EXCEPT !.clients = remove(@, value)] ELSE ge
    /\ ve' = IF E = "GE" THEN ve ELSE [ve EXCEPT ![E].clients = remove(@, value)]
    /\ hist' = [hist EXCEPT !.gone[E] = IF value \in hist.held[E] THEN @ \cup {value} ELSE @,
                            !.held[E] = @ \ {value}]
    /\ UNCHANGED <<net, sim, cli>>

NextSet ==
    \/ \E E \in SetOwners, value \in Sockets : SetInsert(E, value)
    \/ \E E \in SetOwners, value \in Sockets : SetRemove(E, value)

SpecSet == InitSet /\ [][NextSet]_vars

(***************************************************************************)
(* SpecIMU: a client connected to a vehicle's server adds and removes IMUs.*)
(***************************************************************************)
InitIMU ==
    /\ net = [backlog |-> [srv \in {"GE"} \cup Vehicles |-> <<>>],
              wire |-> [s \in Sockets |-> <<>>],
              inbuf |-> [s \in Sockets |-> <<>>],
              out |-> [s \in Sockets |-> <<>>],
              peerClosed |-> [s \in Sockets |-> FALSE],
              full |-> [s \in Sockets |-> FALSE]]
    /\ ge = [quitRequested |-> FALSE, down |-> FALSE, conSleep |-> 1, stepsLeft |-> 0,
             blocking |-> Nil, waiting |-> Nil, spawnPending |-> Nil,
             vehicleInfoPending |-> 0, vehicleInfo |-> Str(Nil),
             frameDelayTimer |-> -1, frameDelayFunc |-> NoFunc,
             dynamicSphereNum |-> 0,
             server |-> TRUE, clients |-> newSet]
    /\ ve = [v \in Vehicles |->
                IF v = EgoVehicle
                THEN [VELocals EXCEPT !.server = TRUE, !.port = HookPort,
                                      !.clients = insert(newSet, "V")]
                     @@ [loaded |-> TRUE]
                ELSE VELocals @@ [loaded |-> FALSE]]
    /\ sim = [gamestateEmpty |-> FALSE, vehLua |-> <<>>, geLua |-> <<>>,
              scenario |-> Nil, objects |-> Vehicles,
              extensions |-> {}, shmem |-> {}, lidars |-> {}, lidarPending |-> <<>>,
              spinning |-> {}]
    /\ cli = [state |-> [c \in Sockets |-> IF c = "V" THEN "open" ELSE "closed"],
              version |-> [c \in Sockets |-> protocolVersion],
              nsent |-> 0]
    /\ hist = NoHistory

IMURequests ==
    {[type |-> Str("AddIMUPosition"), name |-> Str("imu1"), pos |-> Arr(<<0, 0, 1>>)],
     [type |-> Str("RemoveIMU"), name |-> Str("imu1")],
     [type |-> Str("RemoveIMU"), name |-> Str("imu9")],
     Hello(protocolVersion)}

NextIMU ==
    \/ DebugDraw(EgoVehicle)
    \/ \E m \in IMURequests : ClientRequest("V", m, FALSE)

SpecIMU == InitIMU /\ [][NextIMU]_vars

(***************************************************************************)
(* SpecVehicles: a client of the game engine asks for the connections of   *)
(* two vehicles and a client connects to each vehicle's port.  Each        *)
(* vehicle's Lua state gets its own debug-draw callbacks; the behaviours   *)
(* taken here are those where the second vehicle has not got one yet, so   *)
(* that what its client wrote stays pending.                               *)
(***************************************************************************)
NextVehicles ==
    \/ PreRender(1)
    \/ VehicleLua
    \/ GameEngineLua
    \/ DebugDraw(EgoVehicle)
    \/ \E m \in VehicleRequests : ClientRequest("A", m, FALSE)
    \/ \E c \in VehicleClients : ClientConnect(c, protocolVersion, FALSE)
    \/ ClientHandshake("V")

SpecVehicles == InitFrame /\ [][NextVehicles]_vars

(***************************************************************************)
(* Properties.                                                             *)
(***************************************************************************)
Members(set) == {set.arr[i] : i \in 1..Len(set.arr)}

\* What a step appends to the history of a socket.
NewSent(s) == SubSeq(hist'.sent[s], Len(hist.sent[s]) + 1, Len(hist'.sent[s]))
NewRx(s) == SubSeq(hist'.rx[s], Len(hist.rx[s]) + 1, Len(hist'.rx[s]))

TypeOf(message) == Field(message, "type")[2]

Count(seq, Test(_)) == Cardinality({i \in 1..Len(seq) : Test(seq[i])})

\* A header as the wire protocol defines it: 16 ASCII decimal digits.
IsDecimalHeader(h) == Len(h) = 16 /\ \A i \in 1..16 : h[i] \in 48..57
HeaderValue(h) ==
    LET v[i \in 0..Len(h)] == IF i = 0 THEN 0 ELSE v[i - 1] * 10 + (h[i] - 48)
    IN  v[Len(h)]

\* The completion message of each blocking reason.
Completion ==
    [loadScenario |-> "MapLoaded", startScenario |-> "ScenarioStarted",
     restartScenario |-> "ScenarioRestarted", returnMainMenu |-> "ScenarioStopped",
     step |-> "Stepped", spawnVehicle |-> "VehicleSpawned"]

IsCompletion(message) == \E r \in DOMAIN Completion : TypeOf(message) = Completion[r]

\* A request whose handler blocks.
IsBlockingRequest(entry) ==
    /\ entry.ok
    /\ \/ TypeOf(entry.msg) \in {"StartScenario", "RestartScenario", "StopScenario",
                                 "Step", "WaitForSpawn"}
       \/ /\ TypeOf(entry.msg) = "LoadScenario"
          /\ Field(entry.msg, "path")[2] \in ScenarioPaths

\* The simulator event or condition that ends each blocking reason.
EventOccurs(reason) ==
    CASE reason = "loadScenario" -> ScenarioUIReady("start")
      [] reason = "startScenario" -> CountdownEnded
      [] reason = "restartScenario" -> ScenarioRestarted
      [] reason = "returnMainMenu" -> sim.gamestateEmpty /\ \E dt \in {0, 1} : PreRender(dt)
      [] reason = "step" -> ge.stepsLeft = 1 /\ \E dt \in {0, 1} : PreRender(dt)
      [] reason = "spawnVehicle" ->
            \E name \in Vehicles : name = ge.spawnPending /\ VehicleSpawned(name)
      [] OTHER -> FALSE

\* What the server answers at once to the requests read in a step.
RECURSIVE AnswersAtReceipt(_)
AnswersAtReceipt(entries) ==
    IF entries = <<>> THEN <<>>
    ELSE LET m == Head(entries).msg
             a == IF TypeOf(m) = "Pause" THEN <<[type |-> Str("Paused")]>>
                  ELSE IF TypeOf(m) = "LoadScenario" /\ ~IsBlockingRequest(Head(entries))
                  THEN <<[bngValueError |->
                            Str("Scenario not found: \"" \o Field(m, "path")[2] \o "\"")]>>
                  ELSE <<>>
         IN  a \o AnswersAtReceipt(Tail(entries))

\* C1: a blocking command (LoadScenario with a valid path, StartScenario,
\* RestartScenario, StopScenario, Step) is not acknowledged when it is handled:
\* what a step sends to a socket are the answers to the non-blocking requests
\* it read from it, preceded by at most one completion message, and a
\* completion message is sent only to the socket that was waiting when the step
\* began, for the reason that was blocking then, in the step in which the
\* matching event or condition occurs.
C1_CompletionOnlyAfterEvent ==
    [][\A s \in Sockets :
          LET ns == NewSent(s)
              answers == AnswersAtReceipt(NewRx(s))
          IN  \/ ns = answers
              \/ /\ ns # <<>>
                 /\ Tail(ns) = answers
                 /\ ge.blocking \in DOMAIN Completion
                 /\ TypeOf(Head(ns)) = Completion[ge.blocking]
                 /\ ge.waiting = s
                 /\ EventOccurs(ge.blocking)]_vars

C1_Witness ==
    \E s \in Sockets :
        /\ Len(hist.sent[s]) = 2
        /\ TypeOf(hist.sent[s][1]) = "MapLoaded"
        /\ TypeOf(hist.sent[s][2]) = "Stepped"
        /\ Len(hist.rx[s]) = 2

\* C2: the blocking slot is never overwritten while it is occupied: every
\* blocking request read from a socket has either been answered by its
\* completion message or is the one the slot holds.
C2_BlockingSlotNotOverwritten ==
    \A s \in Sockets :
        Count(hist.rx[s], IsBlockingRequest) =
            Count(hist.sent[s], IsCompletion)
            + (IF ge.blocking # Nil /\ ge.waiting = s THEN 1 ELSE 0)

\* C3: every request read from a connected client causes exactly one response
\* or error message on its socket: never more responses than requests, and
\* as many once the server has read everything and no operation is outstanding.
C3_ExactlyOneResponse ==
    \A s \in Sockets :
        /\ Len(hist.sent[s]) <= Len(hist.rx[s])
        /\ (/\ ge.blocking = Nil
            /\ s \in Members(ge.clients)
            /\ net.inbuf[s] = <<>> /\ net.wire[s] = <<>>)
           => Len(hist.sent[s]) = Len(hist.rx[s])

\* bytes is the concatenation of one frame per message of msgs: 16 decimal
\* digits whose value is the length of the payload, then the payload.
RECURSIVE Framed(_, _)
Framed(bytes, msgs) ==
    IF msgs = <<>> THEN bytes = <<>>
    ELSE LET payload == pack(Head(msgs))
             n == Len(payload)
         IN  /\ Len(bytes) >= 16 + n
             /\ IsDecimalHeader(SubSeq(bytes, 1, 16))
             /\ HeaderValue(SubSeq(bytes, 1, 16)) = n
             /\ SubSeq(bytes, 17, 16 + n) = payload
             /\ Framed(SubSeq(bytes, 17 + n, Len(bytes)), Tail(msgs))

PayloadLengths == {0, 1, 9, 10, 65535, 65536, 65537, 99999}

\* C4: what sendMessage writes for a message is exactly a 16-character
\* zero-padded decimal header followed by the serialized payload, and the
\* header's value is the payload's length in bytes: the bytes a socket holds
\* unread are the frames of the last messages passed to sendMessage for it,
\* and the header is well-formed for lengths from zero to beyond 64 KB.
C4_HeaderIsPayloadLength ==
    /\ \A s \in Sockets :
          \E k \in 0..Len(hist.sent[s]) :
              Framed(net.out[s], SubSeq(hist.sent[s], k + 1, Len(hist.sent[s])))
    /\ \A n \in PayloadLengths :
          IsDecimalHeader(format016d(n)) /\ HeaderValue(format016d(n)) = n

C4_Witness ==
    \E s \in Sockets :
        /\ Len(hist.sent[s]) = 2
        /\ TypeOf(hist.sent[s][2]) = "GetLevels"
        /\ Len(net.out[s]) > 16 + 65536
        /\ Framed(net.out[s], <<hist.sent[s][2]>>)

\* The length of the frames of a sequence of messages.
RECURSIVE FramesLen(_)
FramesLen(msgs) ==
    IF msgs = <<>> THEN 0 ELSE 16 + Len(pack(Head(msgs))) + FramesLen(Tail(msgs))

RECURSIVE ConsumedLen(_)
ConsumedLen(entries) ==
    IF entries = <<>> THEN 0 ELSE 16 + Head(entries).len + ConsumedLen(Tail(entries))

\* C5: a frame that has not fully arrived when the server reads is retried
\* later: the client that writes well-formed frames is not dropped, and the
\* bytes it wrote are all either read as frames or still waiting.
C5_PartialFrameRetried ==
    \A s \in Sockets :
        (cli.state[s] = "open" /\ ~hist.raw[s] /\ ~net.peerClosed[s]) =>
            /\ s \in Members(ge.clients)
            /\ FramesLen(hist.csent[s]) =
                   ConsumedLen(hist.rx[s]) + Len(net.inbuf[s]) + Len(net.wire[s])

\* C6: the reader hands bytes to the deserializer only after it read a full
\* 16-byte header and then exactly as many payload bytes as the header says.
C6_ExactlyHeaderManyBytes ==
    \A s \in Sockets : \A i \in 1..Len(hist.rx[s]) :
        /\ Len(hist.rx[s][i].header) = 16
        /\ tonumber(hist.rx[s][i].header) = hist.rx[s][i].len

\* What the server has read from a socket is, in order and message for
\* message, a prefix of what the client wrote to it.
ReadBack(s) ==
    /\ Len(hist.rx[s]) <= Len(hist.csent[s])
    /\ \A i \in 1..Len(hist.rx[s]) :
          hist.rx[s][i].ok /\ hist.rx[s][i].msg = hist.csent[s][i]

\* C7: framing round-trips: the messages read from a socket are the messages
\* written to it, in order and with their boundaries, and a frame in which the
\* server reads a socket whose frames have all arrived reads every one of them
\* and keeps the client.
C7_FramingRoundTrips ==
    [][\A s \in Sockets : ~hist'.raw[s] =>
          /\ ReadBack(s)'
          /\ (/\ s \in Members(ge.clients)
              /\ net.wire[s] = <<>> /\ net.inbuf[s] # <<>>
              /\ \E dt \in {0, 1} : PreRender(dt))
             => /\ Len(hist'.rx[s]) = Len(hist'.csent[s])
                /\ net'.inbuf[s] = <<>>
                /\ s \in Members(ge'.clients)]_vars

C7_Witness ==
    /\ ~hist.raw["A"]
    /\ Len(hist.rx["A"]) = 2
    /\ hist.rx["A"][1].msg # hist.rx["A"][2].msg
    /\ <<hist.rx["A"][1].msg, hist.rx["A"][2].msg>> = hist.csent["A"]
    /\ "A" \in Members(ge.clients)

\* C8: a frame whose header is no decimal number is rejected: from a socket
\* that was written nothing but such frames the server unpacks no payload,
\* dispatches no handler and so answers nothing.
C8_BadHeaderRejected ==
    \A s \in Sockets :
        (hist.raw[s] /\ hist.csent[s] = <<>>) =>
            hist.rx[s] = <<>> /\ hist.sent[s] = <<>>

IsHello(message) == TypeOf(message) = "Hello"
IsHelloEntry(entry) == entry.ok /\ IsHello(entry.msg)

\* C9: every Hello read from a socket is answered by exactly one Hello
\* carrying the server's protocol version, on that socket: per socket there
\* are as many Hello replies as Hello requests read, each with the version.
C9_HelloAnsweredOnce ==
    \A s \in Sockets :
        /\ Count(hist.sent[s], IsHello) = Count(hist.rx[s], IsHelloEntry)
        /\ \A i \in 1..Len(hist.sent[s]) :
              IsHello(hist.sent[s][i]) =>
                  hist.sent[s][i] = [type |-> Str("Hello"),
                                     protocolVersion |-> Str("v1.19")]

C9_Witness ==
    /\ Count(hist.rx["A"], IsHelloEntry) = 1
    /\ Count(hist.sent["A"], IsHello) = 1
    /\ cli.version["V"] # "v1.19"
    /\ Count(hist.rx["V"], IsHelloEntry) = 1
    /\ Count(hist.sent["V"], IsHello) = 1

\* C10: a client whose protocol version differs from the server's is aborted
\* at the handshake: the server processes no request of it but Hello.
C10_MismatchAborted ==
    \A s \in Sockets :
        cli.version[s] # protocolVersion =>
            /\ cli.state[s] \in {"closed", "hello", "aborted"}
            /\ \A i \in 1..Len(hist.rx[s]) : IsHelloEntry(hist.rx[s][i])

C10_Witness ==
    \E s \in Sockets :
        /\ cli.version[s] # protocolVersion
        /\ cli.state[s] = "aborted"
        /\ Len(hist.rx[s]) = 1
        /\ s \notin Members(ge.clients)

\* A StartVehicleConnection request for the vehicle has been read.
ConnectionRequested(vid) ==
    \E s \in Sockets : \E i \in 1..Len(hist.rx[s]) :
        /\ hist.rx[s][i].ok
        /\ TypeOf(hist.rx[s][i].msg) = "StartVehicleConnection"
        /\ Field(hist.rx[s][i].msg, "vid") = Str(vid)

\* C11: the StartVehicleConnection reply is sent only in the step in which
\* the game engine runs the vehicle's report that its server is ready, to the
\* socket waiting for the vehicle connection, never in a step that reads the
\* request; its result is the port the vehicle's server is bound to; and the
\* vehicle has a server only if a StartVehicleConnection request for it was
\* read before.
C11_VehicleReplyAfterReady ==
    [][/\ \A s \in Sockets : \A i \in 1..Len(NewSent(s)) :
             TypeOf(NewSent(s)[i]) = "StartVehicleConnection" =>
                 /\ GameEngineLua
                 /\ NewRx(s) = <<>>
                 /\ ge.blocking = "vehicleConnection" /\ ge.waiting = s
                 /\ ve[EgoVehicle].server
                 /\ NewSent(s)[i] = [type |-> Str("StartVehicleConnection"),
                                     vid |-> Str(EgoVehicle), result |-> Num(ve[EgoVehicle].port)]
       /\ \A v \in Vehicles : ve'[v].server => ConnectionRequested(v)']_vars

C11_Witness ==
    /\ ve["car1"].server /\ ve["car1"].port = 64257
    /\ Len(hist.sent["A"]) = 2
    /\ hist.sent["A"][2] = [type |-> Str("StartVehicleConnection"),
                            vid |-> Str("car1"), result |-> Num(64257)]

ReachesReadLoop ==
    /\ ~ge.quitRequested /\ ge.server
    /\ ge.blocking = Nil /\ ge.frameDelayTimer <= 0

\* C13: when reading from a socket fails, here because its peer has closed,
\* that socket and no other leaves the client set: a socket leaves the set
\* only if its peer has closed, a frame's read loop removes every member
\* whose peer has closed, the set stays a set (each member at the index kept
\* for it, once), and a member whose peer has not closed and that has a
\* request to read is read and answered by the next frame's read loop,
\* whatever was removed before.
C13_OnlyFailedSocketRemoved ==
    [][/\ \A s \in Members(ge.clients) :
             /\ s \notin Members(ge'.clients) => net.peerClosed[s]
             /\ ( /\ IsReadable(State, s) /\ ReachesReadLoop
                  /\ PreRender(1) )
                => IF net.peerClosed[s] THEN s \notin Members(ge'.clients)
                   ELSE NewRx(s) # <<>> /\ NewSent(s) # <<>>
       /\ DOMAIN ge'.clients.reverse = Members(ge'.clients)
       /\ \A i \in 1..Len(ge'.clients.arr) :
             ge'.clients.reverse[ge'.clients.arr[i]] = i]_vars

\* A was accepted first and B second; A sent a request and closed, and A
\* was removed, which moved B to A's index; B's request has been answered
\* and B is still there.
C13_Witness ==
    /\ net.peerClosed["A"] /\ ~net.peerClosed["B"]
    /\ ge.clients.arr = <<"B">> /\ ge.clients.reverse["B"] = 1
    /\ Len(hist.rx["B"]) = 1 /\ Len(hist.sent["B"]) = 1
    /\ Len(hist.rx["A"]) = 1

\* The type of the message that answers a request of each type.
ResponseType ==
    [Hello |-> "Hello", Pause |-> "Paused", GetLevels |-> "GetLevels",
     LoadScenario |-> "MapLoaded", StartScenario |-> "ScenarioStarted",
     RestartScenario |-> "ScenarioRestarted", StopScenario |-> "ScenarioStopped",
     Step |-> "Stepped", WaitForSpawn |-> "VehicleSpawned",
     StartVehicleConnection |-> "StartVehicleConnection"]

\* The message resp answers the request of the entry: it has the type that
\* answers the request's, and names the vehicle the request names.
Answers(entry, resp) ==
    /\ entry.ok
    /\ TypeOf(entry.msg) \in DOMAIN ResponseType
    /\ TypeOf(resp) = ResponseType[TypeOf(entry.msg)]
    /\ TypeOf(resp) = "StartVehicleConnection"
          => Field(resp, "vid") = Field(entry.msg, "vid")

\* C14: every response is sent on the socket from which the request it
\* answers was read: each message sent to a socket answers a request that
\* was read from that socket.
C14_ResponseOnRequestSocket ==
    \A s \in Sockets : \A i \in 1..Len(hist.sent[s]) :
        \E j \in 1..Len(hist.rx[s]) : Answers(hist.rx[s][j], hist.sent[s][i])

\* An error reply: one top-level key, bngError or bngValueError, with the text.
IsErrorReply(message) ==
    /\ DOMAIN message \in {{"bngError"}, {"bngValueError"}}
    /\ \A k \in DOMAIN message : IsStr(message[k])

\* A request the server rejects: a scenario path it does not find, an object
\* id it does not find, a scenario definition with a field missing, the
\* current scenario when none is loaded.
Rejected(entry) ==
    /\ entry.ok
    /\ \/ /\ TypeOf(entry.msg) = "LoadScenario"
          /\ Field(entry.msg, "path")[2] \notin ScenarioPaths
       \/ /\ TypeOf(entry.msg) = "GetObject"
          /\ \A n \in Vehicles : getID(n) # Field(entry.msg, "id")[2]
       \/ /\ TypeOf(entry.msg) = "CreateScenario"
          /\ {"name", "level", "info"} \ DOMAIN entry.msg # {}
       \/ /\ TypeOf(entry.msg) = "GetCurrentScenario"
          /\ sim.scenario = Nil

\* C15: every error reply is a message whose one top-level key is bngError
\* or bngValueError, without a type field: a step sends to a socket as many
\* such messages as it reads rejected requests from it, and no message the
\* server sends has one of the two keys beside another key.
C15_ErrorReplyShape ==
    [][\A s \in Sockets :
          /\ Count(NewSent(s), IsErrorReply) = Count(NewRx(s), Rejected)
          /\ \A i \in 1..Len(NewSent(s)) :
                DOMAIN NewSent(s)[i] \cap {"bngError", "bngValueError"} # {}
                    => IsErrorReply(NewSent(s)[i])]_vars

\* Each of the rejected requests has been answered with its error reply.
C15_Witness ==
    \E i, j \in 1..Len(hist.sent["A"]) :
        /\ hist.sent["A"][i] = [bngValueError |-> Str("Unknown object ID: 9")]
        /\ hist.sent["A"][j] = [bngValueError |-> Str("Scenario needs a name.")]

\* C16: every message the server sends that is not an error reply carries a
\* string field type at its top level.
C16_NonErrorHasType ==
    \A s \in Sockets : \A i \in 1..Len(hist.sent[s]) :
        ~IsErrorReply(hist.sent[s][i]) =>
            /\ "type" \in DOMAIN hist.sent[s][i]
            /\ IsStr(hist.sent[s][i].type)

\* The last element of a sequence.
Last(seq) == seq[Len(seq)]

\* C17: after a request was answered with bngValueError the connection is
\* usable as before.  A step in which the last request read from a socket
\* is rejected and answered with the error reply leaves the server not
\* blocking and able to reach its read loop, and the socket in the client
\* set; and when the last message sent to a socket is an error reply, the
\* next frame's read loop reads the request pending on the socket and
\* answers it as it answers it at any other time, Pause with Paused.
C17_UsableAfterValueError ==
    [][\A s \in Members(ge.clients) :
          /\ ( /\ NewRx(s) # <<>> /\ Rejected(Last(NewRx(s)))
               /\ NewSent(s) # <<>> /\ IsErrorReply(Last(NewSent(s))) )
             => /\ s \in Members(ge'.clients)
                /\ ReachesReadLoop'
          /\ ( /\ hist.sent[s] # <<>> /\ IsErrorReply(Last(hist.sent[s]))
               /\ net.inbuf[s] # <<>>
               /\ ReachesReadLoop /\ PreRender(1) )
             => /\ NewRx(s) # <<>>
                /\ s \in Members(ge'.clients)
                /\ TypeOf(NewRx(s)[1].msg) = "Pause"
                      => NewSent(s) # <<>> /\ NewSent(s)[1] = [type |-> Str("Paused")]]_vars

\* The unknown path was answered with the error reply, and the request after
\* it with its acknowledgement.
C17_Witness ==
    /\ Len(hist.sent["A"]) = 2
    /\ hist.sent["A"][1] = [bngValueError |-> Str("Scenario not found: \"/no.json\"")]
    /\ hist.sent["A"][2] = [type |-> Str("Paused")]
    /\ "A" \in Members(ge.clients) /\ ge.blocking = Nil

\* A request that names a vehicle or an object the engine does not have.
NamesUnknownId(entry) ==
    /\ entry.ok
    /\ \/ /\ TypeOf(entry.msg) = "StartVehicleConnection"
          /\ Field(entry.msg, "vid")[2] \notin Vehicles
       \/ /\ TypeOf(entry.msg) = "GetObject"
          /\ \A n \in Vehicles : getID(n) # Field(entry.msg, "id")[2]

\* C18: a request that names a vehicle or object id that does not exist is
\* answered with a bngValueError on the requesting socket: the step that
\* reads such requests from a socket sends it an error reply for each.
C18_UnknownIdAnswered ==
    [][\A s \in Sockets :
          Count(NewSent(s), IsErrorReply) >= Count(NewRx(s), NamesUnknownId)]_vars

\* What a step appends to the log and to the calls made for a socket.
NewLog(s) == SubSeq(hist'.log[s], Len(hist.log[s]) + 1, Len(hist'.log[s]))
NewCalls(s) == SubSeq(hist'.calls[s], Len(hist.calls[s]) + 1, Len(hist'.calls[s]))

\* A message nobody has a handler for: without a type, or with a type for
\* which neither the game engine nor a loaded extension has one.
ExtensionLoaded == "gameEngineCode" \in sim.extensions
NoType(entry) == entry.ok /\ "type" \notin DOMAIN entry.msg
NoBuiltin(entry) ==
    entry.ok /\ "type" \in DOMAIN entry.msg /\ ~HasHandler("GE", TypeOf(entry.msg))
UnknownType(entry) ==
    NoBuiltin(entry) /\ ~(ExtensionLoaded /\ TypeOf(entry.msg) = "Foo")
Unhandled(entry) == NoType(entry) \/ UnknownType(entry)
CallsHook(call) == call.to = "onSocketMessage"
IsErrorLog(entry) == entry.level = "E"

\* The requests a client has written that the server has not read yet.
Pending(s) == Len(hist.csent[s]) - Len(hist.rx[s])

\* What C19 says of a step but for the log: the socket stays in the client
\* set; a step that reads nothing but such messages sends nothing, leaves
\* the blocking slot as it was and reads all that is pending; and a step
\* whose first message is such a message reads the one pending after it.
DroppedInStep(s) ==
    /\ Count(NewRx(s), Unhandled) > 0 => s \in Members(ge'.clients)
    /\ ( NewRx(s) # <<>> /\ Count(NewRx(s), Unhandled) = Len(NewRx(s)) )
         => /\ NewSent(s) = <<>>
            /\ ge'.blocking = ge.blocking /\ ge'.waiting = ge.waiting
            /\ Len(NewRx(s)) = Pending(s)
    /\ ( NewRx(s) # <<>> /\ Unhandled(NewRx(s)[1]) /\ Pending(s) >= 2 )
         => Len(NewRx(s)) >= 2

\* C19 as stated: a message with no type field, or whose type has neither a
\* built-in handler nor an extension handler, is dropped with a log entry,
\* one for each such message, and does not remove the client, change the
\* blocking state or stop the loop.
C19_DroppedWithLogEntry ==
    [][\A s \in Clients :
          /\ Count(NewLog(s), IsErrorLog) = Count(NewRx(s), Unhandled)
          /\ DroppedInStep(s)]_vars

\* C19, amended: a message with no type field is dropped with a log entry
\* of the server; a message whose type has no handler is logged by the
\* loaded extension, and is dropped without a log entry when no extension
\* is loaded; neither removes the client, changes the blocking state or
\* stops the loop.
C19_DroppedLoggedIfExtension ==
    [][\A s \in Clients :
          /\ Count(NewLog(s), IsErrorLog) =
                Count(NewRx(s), NoType)
                + (IF ExtensionLoaded THEN Count(NewRx(s), UnknownType) ELSE 0)
          /\ DroppedInStep(s)]_vars

\* With the extension loaded a message without a type and one of an unknown
\* type were read in one frame: each left a log entry, nothing was sent and
\* the client is still served.
C19_Witness ==
    /\ ExtensionLoaded
    /\ Len(hist.rx["A"]) = 2
    /\ NoType(hist.rx["A"][1]) /\ UnknownType(hist.rx["A"][2])
    /\ Len(hist.log["A"]) = 2
    /\ hist.log["A"][1].tag = "researchCommunication"
    /\ hist.log["A"][2].tag = "gameEngineCode"
    /\ hist.sent["A"] = <<>>
    /\ "A" \in Members(ge.clients) /\ ge.blocking = Nil

\* The calls M.checkMessages owes to the messages it read: one for each
\* message with a type, to the built-in handler if the game engine has one
\* for the type and to the hook otherwise.
HasType(entry) == entry.ok /\ "type" \in DOMAIN entry.msg
RECURSIVE CallsFor(_)
CallsFor(entries) ==
    IF entries = <<>> THEN <<>>
    ELSE LET entry == Head(entries)
         IN  (IF ~HasType(entry) THEN <<>>
              ELSE <<[to |-> IF HasHandler("GE", TypeOf(entry.msg))
                             THEN "handler" ELSE "onSocketMessage",
                      msg |-> entry.msg]>>)
             \o CallsFor(Tail(entries))

IsPause(entry) == HasType(entry) /\ TypeOf(entry.msg) = "Pause"
IsPaused(message) == message = [type |-> Str("Paused")]
IsModLog(entry) == entry.tag = "gameEngineCode"
\* A message the loaded extension's onSocketMessage logs about: the hook
\* was called for it and handleFoo did not fail on a missing name.
ModLogs(entry) ==
    NoBuiltin(entry) /\ ~(TypeOf(entry.msg) = "Foo" /\ "someName" \notin DOMAIN entry.msg)

\* C20: a message of type T goes to the built-in handler handleT when there
\* is one, and to the hook onSocketMessage if and only if there is none,
\* never to both: the calls of a frame are exactly one per message with a
\* type, each Pause is answered by handlePause, and the loaded extension
\* logs for the messages without a built-in handler and for no other.
C20_HandlerOrHookNeverBoth ==
    [][\A s \in Clients :
          /\ NewCalls(s) = CallsFor(NewRx(s))
          /\ Count(NewSent(s), IsPaused) = Count(NewRx(s), IsPause)
          /\ Count(NewLog(s), IsModLog) =
                (IF ExtensionLoaded THEN Count(NewRx(s), ModLogs) ELSE 0)]_vars

\* With the extension loaded a Pause and a Foo were read: the first went to
\* the built-in handler, the second to the hook, and each was answered by
\* the one it went to.
C20_Witness ==
    /\ ExtensionLoaded
    /\ Len(hist.calls["A"]) = 2
    /\ hist.calls["A"][1].to = "handler" /\ TypeOf(hist.calls["A"][1].msg) = "Pause"
    /\ hist.calls["A"][2].to = "onSocketMessage" /\ TypeOf(hist.calls["A"][2].msg) = "Foo"
    /\ hist.sent["A"] = <<[type |-> Str("Paused")], [type |-> Str("Goodbye!")]>>
    /\ Count(hist.log["A"], IsModLog) = 1

IsCloseShmem(entry) == HasType(entry) /\ TypeOf(entry.msg) = "CloseShmem"
IsClosedShmem(message) == message = [type |-> Str("ClosedShmem")]
Unsent == hist'.sent = hist.sent /\ net'.out = net.out

\* C21: closing a shared-memory region is idempotent: every CloseShmem
\* read is acknowledged with ClosedShmem, whether the name is open, was
\* closed before or was never opened, and the name is not open afterwards
\* if it was the last request read; a close with a nil socket raises no
\* error and sends nothing.
C21_CloseShmemIdempotent ==
    [][/\ \A s \in Clients :
             /\ Count(NewSent(s), IsClosedShmem) = Count(NewRx(s), IsCloseShmem)
             /\ ( NewRx(s) # <<>> /\ IsCloseShmem(Last(NewRx(s))) )
                  => Field(Last(NewRx(s)).msg, "name")[2] \notin sim'.shmem
       /\ \A n \in ShmemNames :
             CloseShmemNoSocket(n)
             => /\ ~handleCloseShmem(State, Nil, CloseShmemRequest(n)).st.raised
                /\ Unsent
                /\ n \notin sim'.shmem]_vars

\* The same name was closed twice, never having been opened, and both
\* requests were acknowledged.
C21_Witness ==
    /\ Len(hist.rx["A"]) = 2
    /\ \A i \in 1..2 : hist.rx["A"][i].msg = CloseShmemRequest("shm1")
    /\ hist.sent["A"] = <<[type |-> Str("ClosedShmem")], [type |-> Str("ClosedShmem")]>>

\* The entries of a SensorData message that hold a size, which is what a
\* lidar that wrote to shared memory calls back with.
IsSensorData(message) == "type" \in DOMAIN message /\ message.type = Str("SensorData")
HoldsSize(entry) == IsTbl(entry) /\ "size" \in DOMAIN entry[2]
SizeEntries(message) ==
    IF IsSensorData(message) /\ IsTbl(message.data)
    THEN Cardinality({k \in DOMAIN message.data[2] : HoldsSize(message.data[2][k])})
    ELSE 0
RECURSIVE SumSizeEntries(_)
SumSizeEntries(messages) ==
    IF messages = <<>> THEN 0
    ELSE SizeEntries(Head(messages)) + SumSizeEntries(Tail(messages))

\* C22: the SensorData reply for a sensor that writes to shared memory is
\* sent only after the write has completed: the replies sent hold no more
\* shared-memory results than completion callbacks have fired, and a reply
\* is not sent while a sensor of its request is still to call back.
C22_SensorDataAfterWrite ==
    \A s \in Clients :
        /\ SumSizeEntries(hist.sent[s]) <= hist.written
        /\ Count(hist.sent[s], IsSensorData)
             + Count(sim.lidarPending, LAMBDA p : p.skt = s) <= Count(hist.rx[s], HasType)

\* A request for the open lidar was answered with the size, after the write.
C22_Witness ==
    /\ hist.written = 1
    /\ Len(hist.sent["A"]) = 1
    /\ SizeEntries(hist.sent["A"][1]) = 1

\* The keys of a sensor request whose type has a handler, and the keys a
\* SensorData message holds an entry for.
SensorKeys == {"cam1", "cam2", "lidar1", "lidar9", "other1"}
SensorTypes == {"Camera", "Lidar"}
IsSensorRequest(entry) == HasType(entry) /\ TypeOf(entry.msg) = "SensorRequest"
HandledKeys(entry) ==
    {k \in DOMAIN entry.msg.sensors[2] : TypeOf(entry.msg.sensors[2][k][2]) \in SensorTypes}
DataKeys(message) == IF IsTbl(message.data) THEN DOMAIN message.data[2] ELSE {}

\* Nothing is left that could still answer: every request written has been
\* read, no delayed action is scheduled and no sensor is to call back.
NothingOutstanding(s) ==
    /\ Len(hist.rx[s]) = Len(hist.csent[s])
    /\ ge.frameDelayTimer <= 0
    /\ sim.lidarPending = <<>>

\* C26: a SensorRequest naming any set of sensors is answered with exactly
\* one SensorData that holds one entry for every requested key whose type
\* has a handler: once nothing is outstanding, there are as many SensorData
\* messages with a given set of keys as requests that ask for that set.
C26_SensorRequestAnswered ==
    \A s \in Clients :
        NothingOutstanding(s) =>
            \A K \in SUBSET SensorKeys :
                Count(hist.sent[s], LAMBDA m : IsSensorData(m) /\ DataKeys(m) = K)
                = Count(hist.rx[s], LAMBDA r : IsSensorRequest(r) /\ HandledKeys(r) = K)

\* What a reader makes of the bytes of one frame: whether it got a message
\* out of them, and the length and the payload it took.
ReadBy(r) == [ok |-> r.err = Nil,
              length |-> IF r.err = Nil THEN tonumber(r.header) ELSE 0,
              payload |-> r.data]
Arrived(frame) == [State EXCEPT !.net.inbuf["A"] = frame]
Written(message) == [ok |-> TRUE, length |-> Len(pack(message)), payload |-> pack(message)]

\* C23: all framing code paths agree on the header: a frame that sendMessage
\* produced is split into the same length and payload, those that were
\* written, by both versions of receive and by the debug dissector.
C23_FramingPathsAgree ==
    \A s \in Clients : \A i \in 1..Len(hist.sent[s]) :
        /\ ReadBy(receive(Arrived(Frame(hist.sent[s][i])), "A")) = Written(hist.sent[s][i])
        /\ ReadBy(receiveOlder(Arrived(Frame(hist.sent[s][i])), "A")) = Written(hist.sent[s][i])
        /\ dissector(Frame(hist.sent[s][i])) = Written(hist.sent[s][i])

IsStep(entry) == HasType(entry) /\ TypeOf(entry.msg) = "Step"
IsStepped(message) == message = [type |-> Str("Stepped")]

\* A frame that reaches the test of blocking: it does not shut down and
\* does not return at the frame delay.
ReachesBlockingCheck == ~ge.quitRequested /\ ge.frameDelayTimer <= 1 /\ PreRender(1)

\* C24: after a Step with count N >= 1 the counter goes down by one in each
\* frame that reaches the blocking check and one Stepped is sent, in the
\* N-th such frame: the step that reads the request leaves the counter at N
\* with the requester waiting; a frame that reaches
\* the check with the counter above 1 takes one off and sends no Stepped; a
\* Stepped is sent only by a frame that reaches the check with the counter
\* at 1, one message, to the requester.
C24_SteppedInNthFrame ==
    [][\A s \in Clients :
          /\ ( NewRx(s) # <<>> /\ IsStep(Last(NewRx(s))) )
               => /\ ge'.blocking = "step" /\ ge'.waiting = s
                  /\ ge'.stepsLeft = Last(NewRx(s)).msg.count[2]
          /\ ( ge.blocking = "step" /\ ge.waiting = s /\ ge.stepsLeft > 1
                /\ ReachesBlockingCheck )
               => /\ ge'.stepsLeft = ge.stepsLeft - 1
                  /\ ge'.blocking = "step" /\ ge'.waiting = s
                  /\ Count(NewSent(s), IsStepped) = 0 /\ NewRx(s) = <<>>
          /\ Count(NewSent(s), IsStepped) > 0
               => /\ ge.blocking = "step" /\ ge.waiting = s /\ ge.stepsLeft = 1
                  /\ ReachesBlockingCheck
                  /\ Count(NewSent(s), IsStepped) = 1
          /\ ( ge.blocking = "step" /\ ge.waiting = s /\ ge.stepsLeft = 1
                /\ ReachesBlockingCheck )
               => Count(NewSent(s), IsStepped) = 1]_vars

IsSetRelativeCam(entry) == HasType(entry) /\ TypeOf(entry.msg) = "SetRelativeCam"
IsRelativeCamSet(message) == message = [type |-> Str("RelativeCamSet")]
Scheduled == ge.frameDelayTimer > 0

\* C27: every SetRelativeCam is acknowledged with exactly one RelativeCamSet,
\* in the third frame after it was handled, and a scheduled delayed action
\* is not replaced or cleared before it has run: with nothing outstanding a
\* socket has got as many RelativeCamSet as SetRelativeCam were read from
\* it; a RelativeCamSet is sent only by the frame that takes the timer from
\* 1 to 0; and while an action is scheduled, a step leaves it in place and
\* takes at most one off the timer, until that frame.
C27_RelativeCamSetOnce ==
    /\ [](\A s \in Clients :
            NothingOutstanding(s) =>
                Count(hist.sent[s], IsRelativeCamSet) = Count(hist.rx[s], IsSetRelativeCam))
    /\ [][/\ \A s \in Clients :
               ( Count(NewSent(s), IsRelativeCamSet) > 0
                 => ( ge.frameDelayTimer = 1 /\ ge.frameDelayFunc.skt = s ) )
         /\ ( ( Scheduled /\ ge.frameDelayTimer > 1 )
              => ( /\ ge'.frameDelayFunc = ge.frameDelayFunc
                   /\ ge'.frameDelayTimer \in {ge.frameDelayTimer, ge.frameDelayTimer - 1} ) )
         /\ ( ( ~Scheduled /\ ge'.frameDelayTimer > 0 /\ ge'.frameDelayFunc.fn = "RelativeCamSet" )
              => ge'.frameDelayTimer = 3 )]_vars

Blocked == ge.blocking # Nil
Ended == ge.blocking = Nil \/ ge.down

\* C25: under fair scheduling of frames and of the simulator's events every
\* blocking operation ends: whenever blocking is set, it is later nil again
\* (or the process has ended, for Quit).
C25_BlockingEnds == Blocked ~> Ended

\* C28: the loop 'while checkMessages(...) do end' ends in every frame,
\* whatever the readiness of the sockets: no loop is ever left spinning.
C28_DrainTerminates == sim.spinning = {}

\* The operation outstanding before the step completes in it: its waiting
\* socket is sent the completion message of its reason.
IsCompletionOf(reason, message) ==
    reason \in DOMAIN Completion /\ TypeOf(message) = Completion[reason]
Completes ==
    /\ ge.waiting \in Sockets
    /\ \E i \in 1..Len(NewSent(ge.waiting)) :
          IsCompletionOf(ge.blocking, NewSent(ge.waiting)[i])

\* C29: in a frame that begins with a blocking operation outstanding and
\* in which that operation does not complete, the game engine reads no
\* message, calls no handler and no hook, and accepts no connection.
C29_BlockedFrameReadsNothing ==
    [][(Blocked /\ ~Completes)
       => /\ hist'.rx = hist.rx
          /\ hist'.calls = hist.calls
          /\ ge'.clients = ge.clients
          /\ \A s \in Sockets : Len(net'.inbuf[s]) >= Len(net.inbuf[s])
          /\ Len(net'.backlog["GE"]) >= Len(net.backlog["GE"])]_vars

\* A frame has run with a Step outstanding (one step taken off) while a
\* request of the waiting client is unread and a client waits to be accepted.
C29_Witness ==
    /\ ge.blocking = "step" /\ ge.stepsLeft = 1 /\ ge.waiting = "A"
    /\ net.inbuf["A"] # <<>>
    /\ net.backlog["GE"] = <<"B">>

\* Nothing is sent, and what the server waits for stays as it is.
Quiet ==
    /\ hist'.sent = hist.sent
    /\ ge'.blocking = ge.blocking /\ ge'.waiting = ge.waiting
    /\ ge'.spawnPending = ge.spawnPending
    /\ ge'.vehicleInfoPending = ge.vehicleInfoPending

\* C30: a completion hook that is called while blocking is nil or holds a
\* reason other than its own sends nothing and leaves blocking, waiting,
\* spawnPending and vehicleInfoPending as they are.
C30_HookActsOnOwnReasonOnly ==
    [][\A h \in DOMAIN OwnReason :
          (HookFires(h) /\ ge.blocking # OwnReason[h]) => Quiet]_vars

\* onVehicleInfoReady has been called while the server, with a vehicle's
\* info still pending, waits for a vehicle to spawn.
C30_Witness ==
    /\ hist.lastHook = [hook |-> "onVehicleInfoReady", blocking |-> "spawnVehicle"]
    /\ ge.blocking = "spawnVehicle" /\ ge.waiting = "A"
    /\ ge.spawnPending = "car1" /\ ge.vehicleInfoPending = 1

IsGetCurrentVehicles(message) == TypeOf(message) = "GetCurrentVehicles"

\* The vehicles the operation in progress has asked and that have not
\* reported: those in vehicleInfo whose info has no port yet.
AskedNotReported ==
    IF ge.blocking = "vehicleInfo" /\ IsTbl(ge.vehicleInfo)
    THEN {v \in DOMAIN ge.vehicleInfo[2] : "port" \notin DOMAIN ge.vehicleInfo[2][v]}
    ELSE {}

\* C31: vehicleInfoPending is the number of vehicles asked by the
\* GetCurrentVehicles operation in progress that have not reported: it is
\* never negative and is 0 when no such operation is outstanding; and the
\* GetCurrentVehicles reply is sent by exactly the steps that bring it
\* back to 0.
C31_VehicleInfoPendingCounts ==
    /\ [](/\ ge.vehicleInfoPending >= 0
          /\ ge.vehicleInfoPending = Cardinality(AskedNotReported))
    /\ [][\A s \in Sockets :
             Count(NewSent(s), IsGetCurrentVehicles) > 0
             <=> ( /\ ge.waiting = s /\ ge.vehicleInfoPending > 0
                   /\ ge'.vehicleInfoPending = 0
                   /\ Count(NewSent(s), IsGetCurrentVehicles) = 1 )]_vars

IsConnectionReply(v, message) ==
    TypeOf(message) = "StartVehicleConnection" /\ Field(message, "vid") = Str(v)

\* The sockets that have been sent a StartVehicleConnection reply for v.
ToldPortOf(v) ==
    {s \in Clients : \E i \in 1..Len(hist.sent[s]) : IsConnectionReply(v, hist.sent[s][i])}

\* C32: however many StartVehicleConnection requests are handled for a
\* vehicle, its listening server is opened at most once (once it listens,
\* it goes on listening on the same port) and every reply for the vehicle
\* announces that port, to whichever client it goes.
C32_StartConnectionIdempotent ==
    /\ [](\A v \in Vehicles, s \in Clients :
            \A i \in 1..Len(hist.sent[s]) :
                IsConnectionReply(v, hist.sent[s][i])
                => ve[v].server /\ Field(hist.sent[s][i], "result") = Num(ve[v].port))
    /\ [][\A v \in Vehicles :
             ve[v].server => ve'[v].server /\ ve'[v].port = ve[v].port]_vars

\* Both clients have been given the port of the same vehicle, after two
\* StartVehicleConnection requests for it were handled.
C32_Witness ==
    /\ ToldPortOf(EgoVehicle) = Clients
    /\ \A s \in Clients : Len(hist.rx[s]) = 1

IsSpawnRequest(entry) ==
    HasType(entry) /\ TypeOf(entry.msg) \in {"SpawnVehicle", "WaitForSpawn"}
    /\ (TypeOf(entry.msg) = "SpawnVehicle" => IsArr(Field(entry.msg, "pos")))
IsVehicleSpawned(message) == TypeOf(message) = "VehicleSpawned"
SpawnedWithName(v, message) == message = [type |-> Str("VehicleSpawned"), name |-> Str(v)]
SpawnRequestsOf(s) == SelectSeq(hist.rx[s], IsSpawnRequest)

\* The last spawn request read from s names v and has had no reply.
AwaitsSpawnOf(s, v) ==
    /\ Len(SpawnRequestsOf(s)) > Count(hist.sent[s], IsVehicleSpawned)
    /\ Field(Last(SpawnRequestsOf(s)).msg, "name") = Str(v)

\* The step is the spawn of v.
Spawns(v) == v \notin sim.objects /\ v \in sim'.objects

\* C33: VehicleSpawned is sent exactly once per SpawnVehicle or WaitForSpawn
\* request, only when the vehicle named by the pending spawn name spawns,
\* and it carries that name; the spawn of another vehicle sends nothing and
\* leaves blocking and spawnPending as they are.  No socket has more
\* replies than requests or more than one request unanswered; a reply is
\* sent only by the spawn of the pending vehicle, to the waiting socket,
\* with its name; and the spawn of a vehicle sends one reply to every
\* socket whose request for it is unanswered.
C33_VehicleSpawnedOncePerRequest ==
    /\ [](\A s \in Clients :
            /\ Count(hist.sent[s], IsVehicleSpawned) <= Len(SpawnRequestsOf(s))
            /\ Len(SpawnRequestsOf(s)) <= Count(hist.sent[s], IsVehicleSpawned) + 1)
    /\ [][
         /\ \A s \in Clients :
               ( Count(NewSent(s), IsVehicleSpawned) > 0
                 => ( /\ ge.blocking = "spawnVehicle" /\ ge.waiting = s
                      /\ ge.spawnPending \in Vehicles /\ Spawns(ge.spawnPending)
                      /\ SelectSeq(NewSent(s), IsVehicleSpawned)
                            = <<[type |-> Str("VehicleSpawned"),
                                 name |-> Str(ge.spawnPending)]>> ) )
         /\ \A v \in Vehicles :
               ( ( Spawns(v) /\ ge.spawnPending # v )
                 => ( /\ hist'.sent = hist.sent
                      /\ ge'.blocking = ge.blocking
                      /\ ge'.spawnPending = ge.spawnPending ) )
         /\ \A v \in Vehicles, s \in Clients :
               ( ( Spawns(v) /\ AwaitsSpawnOf(s, v) )
                 => Count(NewSent(s), LAMBDA m : SpawnedWithName(v, m)) = 1 )]_vars

IsRemoveIMU(entry) == HasType(entry) /\ TypeOf(entry.msg) = "RemoveIMU"
IsIMURemoved(message) == message = [type |-> Str("IMURemoved")]
IsUnknownIMU(message) ==
    \E n \in {"imu1", "imu9"} : message = [bngValueError |-> Str("Unknown IMU: " \o n)]

\* C34: a RemoveIMU request naming an IMU that does not exist is answered
\* with a bngValueError on the requesting socket, and one naming an IMU
\* that exists with IMURemoved on that socket: the step of the vehicle's
\* loop that reads one RemoveIMU request and nothing else from a socket
\* sends that socket the one or the other, after an IMU has been added.
C34_RemoveIMUAnswered ==
    [][\A s \in VehicleClients :
          ( /\ Len(NewRx(s)) = 1 /\ IsRemoveIMU(NewRx(s)[1])
            /\ ve[ServerOf(s)].imuLoaded )
          => IF Field(NewRx(s)[1].msg, "name")[2] \in ve[ServerOf(s)].imus
             THEN NewSent(s) = <<[type |-> Str("IMURemoved")]>>
             ELSE NewSent(s) =
                    <<[bngValueError |->
                         Str("Unknown IMU: " \o Field(NewRx(s)[1].msg, "name")[2])]>>]_vars

\* C35: after any sequence of insert and remove calls on a set made by
\* newSet, the array part holds every value inserted and not removed since
\* exactly once, with no hole and no removed value, and reverse[v] is the
\* array index of v for every value present and nil for every other value.
C35_SetHoldsInsertedOnce ==
    \A E \in SetOwners :
        /\ {SetOf(E).arr[i] : i \in 1..Len(SetOf(E).arr)} = hist.held[E]
        /\ Len(SetOf(E).arr) = Cardinality(hist.held[E])
        /\ \A i \in 1..Len(SetOf(E).arr) : SetOf(E).arr[i] # Nil
        /\ DOMAIN SetOf(E).reverse = hist.held[E]
        /\ \A v \in hist.held[E] :
              /\ SetOf(E).reverse[v] \in 1..Len(SetOf(E).arr)
              /\ SetOf(E).arr[SetOf(E).reverse[v]] = v

\* Three values were inserted and the first of them removed: the top took
\* its index.
C35_Witness ==
    /\ ge.clients.arr = <<"W", "B">>
    /\ hist.gone["GE"] = {"A"}
    /\ ve[EgoVehicle].clients.arr = <<"V">>

====
